---- MODULE Spec2Model ----
(***************************************************************************)
(* CWPack (cwpack.c): the MessagePack packer, the unpacker and the skip    *)
(* operator over a caller-supplied byte window.                            *)
(*                                                                         *)
(* C integers keep their width.  A w-bit integer is a machine word: the    *)
(* sequence of its w/8 bytes, least significant byte first, and the        *)
(* arithmetic on words is the two's-complement arithmetic of the machine   *)
(* (the model checker's own integers are too narrow for a uint64_t).       *)
(* Pointers are 64-bit words.  Memory is one address space, kept as the    *)
(* log of the stores made to it.                                           *)
(***************************************************************************)
EXTENDS Integers, Sequences, FiniteSets, TLC

(***************************************************************************)
(* Machine words                                                           *)
(***************************************************************************)

\* The k-th power of 256 for the byte positions a small literal can reach.
Pow256 == <<1, 256, 65536, 16777216>>

\* The w-byte word of a literal 0 <= n < 2^31.
Lit(n, w) == [k \in 1..w |-> IF k <= 4 THEN (n \div Pow256[k]) % 256 ELSE 0]

\* The bytes k.. of a + b + c: byte by byte with the carry c.
RECURSIVE AddFrom(_, _, _, _)
AddFrom(a, b, c, k) ==
    IF k > Len(a) THEN <<>>
    ELSE <<(a[k] + b[k] + c) % 256>> \o AddFrom(a, b, (a[k] + b[k] + c) \div 256, k + 1)

\* a + b + c0 modulo 2^(8 * Len(a)); a and b have the same width.
AddC(a, b, c0) == AddFrom(a, b, c0, 1)

AddW(a, b) == AddC(a, b, 0)

NotW(a) == [k \in 1..Len(a) |-> 255 - a[k]]

\* a - b modulo 2^(8 * Len(a)).
SubW(a, b) == AddC(a, NotW(b), 1)

NegW(a) == SubW([k \in 1..Len(a) |-> 0], a)

\* The w-byte word of a literal -2^31 < n < 2^31.
SLit(n, w) == IF n >= 0 THEN Lit(n, w) ELSE NegW(Lit(-n, w))

\* Unsigned and signed comparison of two words of the same width.
RECURSIVE LtFrom(_, _, _)
LtFrom(a, b, k) ==
    IF k = 0 THEN FALSE
    ELSE IF a[k] # b[k] THEN a[k] < b[k]
    ELSE LtFrom(a, b, k - 1)

LtU(a, b) == LtFrom(a, b, Len(a))

LeU(a, b) == ~LtU(b, a)

IsNeg(a) == a[Len(a)] >= 128

LtS(a, b) == IF IsNeg(a) # IsNeg(b) THEN IsNeg(a) ELSE LtU(a, b)

LeS(a, b) == ~LtS(b, a)

IsZero(a) == \A k \in 1..Len(a) : a[k] = 0

\* Conversions between widths: (uintN_t)a, zero extension, sign extension.
Trunc(a, w) == SubSeq(a, 1, w)

ZeroExt(a, w) == [k \in 1..w |-> IF k <= Len(a) THEN a[k] ELSE 0]

SignExt(a, w) ==
    [k \in 1..w |-> IF k <= Len(a) THEN a[k] ELSE IF IsNeg(a) THEN 255 ELSE 0]

\* Conversion to an unsigned (Unsigned) or from a signed (Signed) type of w bytes.
Unsigned(a, w) == IF w <= Len(a) THEN Trunc(a, w) ELSE ZeroExt(a, w)

Signed(a, w) == IF w <= Len(a) THEN Trunc(a, w) ELSE SignExt(a, w)

\* a << 8n and a >> 8n (logical) within the width of a.
ShlBytes(a, n) == [k \in 1..Len(a) |-> IF k > n THEN a[k - n] ELSE 0]

ShrBytes(a, n) == [k \in 1..Len(a) |-> IF k + n <= Len(a) THEN a[k + n] ELSE 0]

\* Bitwise and, or of two bytes and of two words.
RECURSIVE BitOp(_, _, _, _)
BitOp(x, y, isAnd, n) ==
    IF n = 0 THEN 0
    ELSE IF x = y THEN x
    ELSE IF x = 0 THEN (IF isAnd THEN 0 ELSE y)
    ELSE IF y = 0 THEN (IF isAnd THEN 0 ELSE x)
    ELSE LET bx == x % 2
             by == y % 2
             bit == IF isAnd THEN bx * by ELSE IF bx + by > 0 THEN 1 ELSE 0
         IN  bit + 2 * BitOp(x \div 2, y \div 2, isAnd, n - 1)

AndW(a, b) == [k \in 1..Len(a) |-> BitOp(a[k], b[k], TRUE, 8)]

OrW(a, b) == [k \in 1..Len(a) |-> BitOp(a[k], b[k], FALSE, 8)]

\* A 64-bit and a 32-bit constant written as in C, most significant byte first.
Hex64(b7, b6, b5, b4, b3, b2, b1, b0) == <<b0, b1, b2, b3, b4, b5, b6, b7>>

Hex32(b3, b2, b1, b0) == <<b0, b1, b2, b3>>

(***************************************************************************)
(* cwpack.h: return codes and item types                                   *)
(***************************************************************************)

CWP_RC_OK == 0
CWP_RC_END_OF_INPUT == -1
CWP_RC_BUFFER_OVERFLOW == -2
CWP_RC_BUFFER_UNDERFLOW == -3
CWP_RC_MALFORMED_INPUT == -4
CWP_RC_WRONG_BYTE_ORDER == -5
CWP_RC_ERROR_IN_HANDLER == -6
CWP_RC_STOPPED == -9

CWP_ITEM_NIL == 300
CWP_ITEM_BOOLEAN == 301
CWP_ITEM_POSITIVE_INTEGER == 302
CWP_ITEM_NEGATIVE_INTEGER == 303
CWP_ITEM_FLOAT == 304
CWP_ITEM_DOUBLE == 305
CWP_ITEM_STR == 306
CWP_ITEM_BIN == 307
CWP_ITEM_ARRAY == 308
CWP_ITEM_MAP == 309
CWP_ITEM_EXT == 310

(***************************************************************************)
(* The build: which byte-order path the preprocessor selects (lines 41-66) *)
(* on which host, and the width of long.  Pointers are 64 bits wide.       *)
(***************************************************************************)

Builds ==
    { [byte_order |-> "big",      host |-> "big",    long_bits |-> 64],
      [byte_order |-> "little",   host |-> "little", long_bits |-> 64],
      [byte_order |-> "little",   host |-> "little", long_bits |-> 32],
      [byte_order |-> "portable", host |-> "little", long_bits |-> 64],
      [byte_order |-> "portable", host |-> "little", long_bits |-> 32] }

\* (unsigned long)x and (long)x.
ULong(b, x) == Unsigned(x, b.long_bits \div 8)

SLong(b, x) == Signed(x, b.long_bits \div 8)

\* A long or an unsigned long added to a pointer.
PtrAddS(p, n) == AddW(p, SignExt(n, 8))

PtrAddU(p, n) == AddW(p, ZeroExt(n, 8))

test_byte_order(b) ==
    IF b.byte_order = "big" /\ b.host # "big" THEN CWP_RC_WRONG_BYTE_ORDER
    ELSE IF b.byte_order = "little" /\ b.host # "little" THEN CWP_RC_WRONG_BYTE_ORDER
    ELSE CWP_RC_OK

(***************************************************************************)
(* Memory: the log of the stores.  A store of len bytes at base writes the *)
(* byte (seed + step * i) % 256 at base + i.  A single byte has len 1; the *)
(* memcpy of a caller's blob v has step 1, v standing for the blob whose   *)
(* i-th byte is (v + i) % 256.  Bytes never stored read as 0.              *)
(***************************************************************************)

MemRead(mem, a) ==
    LET hit == {k \in 1..Len(mem) :
                    /\ LtU(SubW(a, mem[k].base), mem[k].len)
                    /\ LeU(mem[k].base, a)}
    IN  IF hit = {} THEN 0
        ELSE LET k == CHOOSE x \in hit : \A y \in hit : y <= x
             IN  (mem[k].seed + mem[k].step * SubW(a, mem[k].base)[1]) % 256

StoreByte(mem, a, byte) ==
    Append(mem, [base |-> a, len |-> Lit(1, 8), seed |-> byte, step |-> 0])

\* memcpy(dst, v, l) with l a uint32_t converted to size_t.
memcpy(mem, dst, v, l) ==
    IF IsZero(l) THEN mem
    ELSE Append(mem, [base |-> dst, len |-> ZeroExt(l, 8), seed |-> v, step |-> 1])

(***************************************************************************)
(* P A C K                                                                 *)
(*                                                                         *)
(* A packer state p is [c: the cw_pack_context, m: memory, h: the sizes    *)
(* the overflow handler was called with].  A pack operation yields         *)
(* [c, m, h, rc]: the state it leaves and the code it returns.             *)
(***************************************************************************)

\* The optional overflow callback: none, one that enlarges the buffer to
\* hold the requested bytes, one that refuses.
PackHandlers == {"NULL", "grow", "refuse"}

handle_pack_overflow(c, more) ==
    IF c.handle_pack_overflow = "grow"
    THEN [rc |-> CWP_RC_OK, c |-> [c EXCEPT !.end = PtrAddU(c.current, more)]]
    ELSE [rc |-> CWP_RC_ERROR_IN_HANDLER, c |-> c]

cw_pack_context_init(b, old, data, length, hpo) ==
    IF test_byte_order(b) # CWP_RC_OK
    THEN [c |-> [old EXCEPT !.return_code = test_byte_order(b)],
          rc |-> test_byte_order(b)]
    ELSE [c |-> [start |-> data, current |-> data, end |-> PtrAddU(data, length),
                 return_code |-> 0, handle_pack_overflow |-> hpo],
          rc |-> CWP_RC_OK]

Return(p, rc) == [c |-> p.c, m |-> p.m, h |-> p.h, rc |-> rc]

\* *pack_context->current++ = byte
PutByte(p, byte) ==
    [p EXCEPT !.m = StoreByte(p.m, p.c.current, byte),
              !.c.current = PtrAddU(p.c.current, Lit(1, 8))]

RECURSIVE PutBytes(_, _)
PutBytes(p, bytes) ==
    IF bytes = <<>> THEN p ELSE PutBytes(PutByte(p, Head(bytes)), Tail(bytes))

\* The bytes of an integer object in address order on the host.
Reverse(x) == [k \in 1..Len(x) |-> x[Len(x) + 1 - k]]

HostBytes(b, x) == IF b.host = "big" THEN Reverse(x) ELSE x

\* The integer of type uintN_t read at the address of object x: *(uintN_t*)&x.
ReadObjectAs(b, x, w) == HostBytes(b, SubSeq(HostBytes(b, x), 1, w))

\* The byte swaps of the little-endian fast path.
cw_swap32(x) ==
    LET x32 == Unsigned(x, 4)
    IN  OrW(OrW(ShrBytes(x32, 3),
                ShrBytes(AndW(x32, Hex32(\h00, \hff, \h00, \h00)), 1)),
            OrW(ShlBytes(AndW(x32, Hex32(\h00, \h00, \hff, \h00)), 1),
                ShlBytes(x32, 3)))

cw_swap64(x) ==
    LET x64 == Unsigned(x, 8)
    IN  OrW(OrW(OrW(AndW(OrW(ShrBytes(x64, 5), ShlBytes(x64, 3)),
                         Hex64(\h00, \h00, \hff, \h00, \h00, \h00, \hff, \h00)),
                    AndW(OrW(ShrBytes(x64, 3), ShlBytes(x64, 5)),
                         Hex64(\h00, \hff, \h00, \h00, \h00, \hff, \h00, \h00))),
                OrW(ShrBytes(AndW(x64, Hex64(\h00, \h00, \h00, \hff, \h00, \h00, \h00, \h00)), 1),
                    ShlBytes(AndW(x64, Hex64(\h00, \h00, \h00, \h00, \hff, \h00, \h00, \h00)), 1))),
            OrW(ShrBytes(x64, 7), ShlBytes(x64, 7)))

\* cw_store16/32/64 of the variable x (a word of the variable's own width).
cw_store16(b, p, x) ==
    IF b.byte_order = "big"
    THEN PutBytes(p, HostBytes(b, ReadObjectAs(b, x, 2)))
    ELSE PutByte(PutByte(p, ShrBytes(x, 1)[1]), x[1])

cw_store32(b, p, x) ==
    IF b.byte_order = "big"
    THEN PutBytes(p, HostBytes(b, ReadObjectAs(b, x, 4)))
    ELSE IF b.byte_order = "little"
    THEN PutBytes(p, HostBytes(b, cw_swap32(x)))
    ELSE PutByte(PutByte(PutByte(PutByte(p, ShrBytes(x, 3)[1]), ShrBytes(x, 2)[1]),
                         ShrBytes(x, 1)[1]), x[1])

cw_store64(b, p, x) ==
    IF b.byte_order = "big"
    THEN PutBytes(p, HostBytes(b, ReadObjectAs(b, x, 8)))
    ELSE IF b.byte_order = "little"
    THEN PutBytes(p, HostBytes(b, cw_swap64(x)))
    ELSE PutByte(PutByte(PutByte(PutByte(PutByte(PutByte(PutByte(PutByte(p,
            ShrBytes(x, 7)[1]), ShrBytes(x, 6)[1]), ShrBytes(x, 5)[1]),
            ShrBytes(x, 4)[1]), ShrBytes(x, 3)[1]), ShrBytes(x, 2)[1]),
            ShrBytes(x, 1)[1]), x[1])

\* cw_pack_reserve_space that returns the handler's code without storing it.
cw_pack_reserve_space_unstored(b, p, more) ==
    IF LtU(ULong(b, SubW(p.c.end, p.c.current)), ULong(b, more))
    THEN IF p.c.handle_pack_overflow = "NULL"
         THEN [stop |-> TRUE, rc |-> CWP_RC_BUFFER_OVERFLOW,
               p |-> [p EXCEPT !.c.return_code = CWP_RC_BUFFER_OVERFLOW]]
         ELSE LET r == handle_pack_overflow(p.c, ULong(b, more))
                  q == [p EXCEPT !.c = r.c, !.h = Append(p.h, ULong(b, more))]
              IN  IF r.rc # 0
                  THEN [stop |-> TRUE, rc |-> r.rc, p |-> q]
                  ELSE [stop |-> FALSE, rc |-> CWP_RC_OK, p |-> q]
    ELSE [stop |-> FALSE, rc |-> CWP_RC_OK, p |-> p]

\* cw_pack_reserve_space(more): [stop: the operation returns rc, p].
cw_pack_reserve_space(b, p, more) ==
    IF LtU(ULong(b, SubW(p.c.end, p.c.current)), ULong(b, more))
    THEN IF p.c.handle_pack_overflow = "NULL"
         THEN [stop |-> TRUE, rc |-> CWP_RC_BUFFER_OVERFLOW,
               p |-> [p EXCEPT !.c.return_code = CWP_RC_BUFFER_OVERFLOW]]
         ELSE LET r == handle_pack_overflow(p.c, ULong(b, more))
                  q == [p EXCEPT !.c = r.c, !.h = Append(p.h, ULong(b, more))]
              IN  IF r.rc # 0
                  THEN [stop |-> TRUE, rc |-> r.rc,
                        p |-> [q EXCEPT !.c.return_code = r.rc]]
                  ELSE [stop |-> FALSE, rc |-> CWP_RC_OK, p |-> q]
    ELSE [stop |-> FALSE, rc |-> CWP_RC_OK, p |-> p]

\* tryMove0..8: t and d are words; the tag of tryMove1..8 is a literal.
tryMove0(b, p, t) ==
    LET r == cw_pack_reserve_space(b, p, Lit(1, 4))
    IN  IF r.stop THEN Return(r.p, r.rc)
        ELSE Return(PutByte(r.p, t[1]), CWP_RC_OK)

tryMove1(b, p, t, d) ==
    LET r == cw_pack_reserve_space(b, p, Lit(2, 4))
    IN  IF r.stop THEN Return(r.p, r.rc)
        ELSE Return(PutByte(PutByte(r.p, t), d[1]), CWP_RC_OK)

tryMove2(b, p, t, d) ==
    LET r == cw_pack_reserve_space(b, p, Lit(3, 4))
    IN  IF r.stop THEN Return(r.p, r.rc)
        ELSE Return(cw_store16(b, PutByte(r.p, t), d), CWP_RC_OK)

tryMove4(b, p, t, d) ==
    LET r == cw_pack_reserve_space(b, p, Lit(5, 4))
    IN  IF r.stop THEN Return(r.p, r.rc)
        ELSE Return(cw_store32(b, PutByte(r.p, t), d), CWP_RC_OK)

tryMove8(b, p, t, d) ==
    LET r == cw_pack_reserve_space(b, p, Lit(9, 4))
    IN  IF r.stop THEN Return(r.p, r.rc)
        ELSE Return(cw_store64(b, PutByte(r.p, t), d), CWP_RC_OK)

\* cw_pack_unsigned with the test of the second rung off by one (i <= 256).
cw_pack_unsigned_rung(b, p, i) ==
    IF p.c.return_code # 0 THEN Return(p, CWP_RC_STOPPED)
    ELSE IF LtU(i, Lit(128, 8)) THEN tryMove0(b, p, i)
    ELSE IF LeU(i, Lit(256, 8)) THEN tryMove1(b, p, \hcc, i)
    ELSE IF LtU(i, Lit(65536, 8)) THEN tryMove2(b, p, \hcd, i)
    ELSE IF LtU(i, Hex64(0, 0, 0, 1, 0, 0, 0, 0)) THEN tryMove4(b, p, \hce, i)
    ELSE tryMove8(b, p, \hcf, i)

\* i is a uint64_t.
cw_pack_unsigned(b, p, i) ==
    IF p.c.return_code # 0 THEN Return(p, CWP_RC_STOPPED)
    ELSE IF LtU(i, Lit(128, 8)) THEN tryMove0(b, p, i)
    ELSE IF LtU(i, Lit(256, 8)) THEN tryMove1(b, p, \hcc, i)
    ELSE IF LtU(i, Lit(65536, 8)) THEN tryMove2(b, p, \hcd, i)
    ELSE IF LtU(i, Hex64(0, 0, 0, 1, 0, 0, 0, 0)) THEN tryMove4(b, p, \hce, i)
    ELSE tryMove8(b, p, \hcf, i)

\* i is an int64_t.
cw_pack_signed(b, p, i) ==
    IF p.c.return_code # 0 THEN Return(p, CWP_RC_STOPPED)
    ELSE IF LeS(Lit(0, 8), i) THEN cw_pack_unsigned(b, p, Unsigned(i, 8))
    ELSE IF LeS(SLit(-32, 8), i) THEN tryMove0(b, p, i)
    ELSE IF LeS(SLit(-128, 8), i) THEN tryMove1(b, p, \hd0, i)
    ELSE IF LeS(SLit(-32768, 8), i) THEN tryMove2(b, p, \hd1, i)
    ELSE IF LeS(Hex64(\hff, \hff, \hff, \hff, \h80, \h00, \h00, \h00), i)
         THEN tryMove4(b, p, \hd2, i)
    ELSE tryMove8(b, p, \hd3, i)

\* f is the bit pattern of the float: uint32_t tmp = *((uint32_t*)&f).
cw_pack_float(b, p, f) ==
    IF p.c.return_code # 0 THEN Return(p, CWP_RC_STOPPED)
    ELSE tryMove4(b, p, \hca, f)

\* d is the bit pattern of the double: uint64_t tmp = *((uint64_t*)&d).
cw_pack_double(b, p, d) ==
    IF p.c.return_code # 0 THEN Return(p, CWP_RC_STOPPED)
    ELSE tryMove8(b, p, \hcb, d)

cw_pack_nil(b, p) ==
    IF p.c.return_code # 0 THEN Return(p, CWP_RC_STOPPED)
    ELSE tryMove0(b, p, Lit(\hc0, 4))

cw_pack_boolean(b, p, v) ==
    IF p.c.return_code # 0 THEN Return(p, CWP_RC_STOPPED)
    ELSE tryMove0(b, p, IF v THEN Lit(\hc3, 4) ELSE Lit(\hc2, 4))

\* n is a uint32_t.
cw_pack_array_size(b, p, n) ==
    IF p.c.return_code # 0 THEN Return(p, CWP_RC_STOPPED)
    ELSE IF LtU(n, Lit(16, 4)) THEN tryMove0(b, p, OrW(Lit(\h90, 4), n))
    ELSE IF LtU(n, Lit(65536, 4)) THEN tryMove2(b, p, \hdc, n)
    ELSE tryMove4(b, p, \hdd, n)

cw_pack_map_size(b, p, n) ==
    IF p.c.return_code # 0 THEN Return(p, CWP_RC_STOPPED)
    ELSE IF LtU(n, Lit(16, 4)) THEN tryMove0(b, p, OrW(Lit(\h80, 4), n))
    ELSE IF LtU(n, Lit(65536, 4)) THEN tryMove2(b, p, \hde, n)
    ELSE tryMove4(b, p, \hdf, n)

\* memcpy(pack_context->current, v, l); pack_context->current += l
CopyBlob(p, v, l) ==
    [p EXCEPT !.m = memcpy(p.m, p.c.current, v, l),
              !.c.current = PtrAddU(p.c.current, l)]

\* v is the caller's blob, l a uint32_t; l + k is computed in 32 bits.
cw_pack_str(b, p, v, l) ==
    IF p.c.return_code # 0 THEN Return(p, CWP_RC_STOPPED)
    ELSE IF LtU(l, Lit(32, 4))
    THEN LET r == cw_pack_reserve_space(b, p, AddW(l, Lit(1, 4)))
         IN  IF r.stop THEN Return(r.p, r.rc)
             ELSE LET q == PutByte(r.p, AddW(Lit(\ha0, 4), l)[1])
                  IN  IF IsZero(l) THEN Return(q, CWP_RC_OK)
                      ELSE Return(CopyBlob(q, v, l), CWP_RC_OK)
    ELSE IF LtU(l, Lit(256, 4))
    THEN LET r == cw_pack_reserve_space(b, p, AddW(l, Lit(2, 4)))
         IN  IF r.stop THEN Return(r.p, r.rc)
             ELSE Return(CopyBlob(PutByte(PutByte(r.p, \hd9), l[1]), v, l), CWP_RC_OK)
    ELSE IF LtU(l, Lit(65536, 4))
    THEN LET r == cw_pack_reserve_space(b, p, AddW(l, Lit(3, 4)))
         IN  IF r.stop THEN Return(r.p, r.rc)
             ELSE Return(CopyBlob(cw_store16(b, PutByte(r.p, \hda), l), v, l), CWP_RC_OK)
    ELSE LET r == cw_pack_reserve_space(b, p, AddW(l, Lit(5, 4)))
         IN  IF r.stop THEN Return(r.p, r.rc)
             ELSE Return(CopyBlob(cw_store32(b, PutByte(r.p, \hdb), l), v, l), CWP_RC_OK)

cw_pack_bin(b, p, v, l) ==
    IF p.c.return_code # 0 THEN Return(p, CWP_RC_STOPPED)
    ELSE IF LtU(l, Lit(256, 4))
    THEN LET r == cw_pack_reserve_space(b, p, AddW(l, Lit(2, 4)))
         IN  IF r.stop THEN Return(r.p, r.rc)
             ELSE Return(CopyBlob(PutByte(PutByte(r.p, \hc4), l[1]), v, l), CWP_RC_OK)
    ELSE IF LtU(l, Lit(65536, 4))
    THEN LET r == cw_pack_reserve_space(b, p, AddW(l, Lit(3, 4)))
         IN  IF r.stop THEN Return(r.p, r.rc)
             ELSE Return(CopyBlob(cw_store16(b, PutByte(r.p, \hc5), l), v, l), CWP_RC_OK)
    ELSE LET r == cw_pack_reserve_space(b, p, AddW(l, Lit(5, 4)))
         IN  IF r.stop THEN Return(r.p, r.rc)
             ELSE Return(CopyBlob(cw_store32(b, PutByte(r.p, \hc6), l), v, l), CWP_RC_OK)

\* The tail shared by every case of cw_pack_ext but fixext 1 (lines 449-452).
ExtTail(p, type, v, l) == CopyBlob(PutByte(p, type[1]), v, l)

\* type is an int8_t (a 1-byte word), v the caller's blob, l a uint32_t.
cw_pack_ext(b, p, type, v, l) ==
    IF p.c.return_code # 0 THEN Return(p, CWP_RC_STOPPED)
    ELSE IF l = Lit(1, 4)
    THEN LET r == cw_pack_reserve_space(b, p, Lit(3, 4))
         IN  IF r.stop THEN Return(r.p, r.rc)
             ELSE Return(PutByte(PutByte(PutByte(r.p, \hd4), type[1]), v), CWP_RC_OK)
    ELSE IF l = Lit(2, 4)
    THEN LET r == cw_pack_reserve_space(b, p, Lit(4, 4))
         IN  IF r.stop THEN Return(r.p, r.rc)
             ELSE Return(ExtTail(PutByte(r.p, \hd5), type, v, l), CWP_RC_OK)
    ELSE IF l = Lit(4, 4)
    THEN LET r == cw_pack_reserve_space(b, p, Lit(6, 4))
         IN  IF r.stop THEN Return(r.p, r.rc)
             ELSE Return(ExtTail(PutByte(r.p, \hd6), type, v, l), CWP_RC_OK)
    ELSE IF l = Lit(8, 4)
    THEN LET r == cw_pack_reserve_space(b, p, Lit(10, 4))
         IN  IF r.stop THEN Return(r.p, r.rc)
             ELSE Return(ExtTail(PutByte(r.p, \hd7), type, v, l), CWP_RC_OK)
    ELSE IF l = Lit(16, 4)
    THEN LET r == cw_pack_reserve_space(b, p, Lit(18, 4))
         IN  IF r.stop THEN Return(r.p, r.rc)
             ELSE Return(ExtTail(PutByte(r.p, \hd8), type, v, l), CWP_RC_OK)
    ELSE IF LtU(l, Lit(256, 4))
    THEN LET r == cw_pack_reserve_space(b, p, AddW(l, Lit(3, 4)))
         IN  IF r.stop THEN Return(r.p, r.rc)
             ELSE Return(ExtTail(PutByte(PutByte(r.p, \hc7), l[1]), type, v, l), CWP_RC_OK)
    ELSE IF LtU(l, Lit(65536, 4))
    THEN LET r == cw_pack_reserve_space(b, p, AddW(l, Lit(4, 4)))
         IN  IF r.stop THEN Return(r.p, r.rc)
             ELSE Return(ExtTail(cw_store16(b, PutByte(r.p, \hc8), l), type, v, l), CWP_RC_OK)
    ELSE LET r == cw_pack_reserve_space(b, p, AddW(l, Lit(6, 4)))
         IN  IF r.stop THEN Return(r.p, r.rc)
             ELSE Return(ExtTail(cw_store32(b, PutByte(r.p, \hc9), l), type, v, l), CWP_RC_OK)

(***************************************************************************)
(* U N P A C K                                                             *)
(*                                                                         *)
(* An unpacker state u is [c: the cw_unpack_context with its item,         *)
(* src: the address where the caller's data source ends, h: the sizes the  *)
(* underflow handler was called with].  cw_unpack_next and cw_skip_items   *)
(* yield [c, src, h, rc].  A macro that may return from the operation      *)
(* yields [stop, rc, u]: stop when the operation returns rc there.         *)
(***************************************************************************)

\* The optional underflow callback: none, one that widens the window over
\* the next bytes of the source and reports its end, one that fails.
UnpackHandlers == {"NULL", "refill", "broken"}

handle_unpack_underflow(u, more) ==
    IF u.c.handle_unpack_underflow = "refill"
    THEN IF LeU(PtrAddU(u.c.current, more), u.src)
         THEN [rc |-> CWP_RC_OK, c |-> [u.c EXCEPT !.end = PtrAddU(u.c.current, more)]]
         ELSE [rc |-> CWP_RC_END_OF_INPUT, c |-> u.c]
    ELSE [rc |-> CWP_RC_ERROR_IN_HANDLER, c |-> u.c]

\* A member of the item or of its union that no store has set yet.
Indeterminate == "indeterminate"

cw_unpack_context_init(b, old, data, len, huu) ==
    IF test_byte_order(b) # CWP_RC_OK
    THEN [c |-> [old EXCEPT !.return_code = test_byte_order(b)],
          rc |-> test_byte_order(b)]
    ELSE [c |-> [start |-> data, current |-> data, end |-> PtrAddU(data, len),
                 return_code |-> 0, handle_unpack_underflow |-> huu,
                 item |-> old.item],
          rc |-> CWP_RC_OK]

UReturn(u, rc) == [c |-> u.c, src |-> u.src, h |-> u.h, rc |-> rc]

Cont(u) == [stop |-> FALSE, rc |-> CWP_RC_OK, u |-> u]

Stop(u, rc) == [stop |-> TRUE, rc |-> rc, u |-> u]

\* r; F: F runs on the state r leaves unless r returned from the operation.
Then(r, F(_)) == IF r.stop THEN r ELSE F(r.u)

\* The w-byte unsigned integer the host reads at address a.
MemObject(b, mem, a, w) ==
    HostBytes(b, [k \in 1..w |-> MemRead(mem, PtrAddU(a, Lit(k - 1, 8)))])

Advance(u, n) == [u EXCEPT !.c.current = PtrAddU(u.c.current, Lit(n, 8))]

\* *unpack_context->current++, as the byte and as the state after it.
CurByte(mem, u) == MemRead(mem, u.c.current)

\* cw_load16, cw_load32: [v: tmpu16 or tmpu32, u].
cw_load16(b, mem, u) ==
    IF b.byte_order = "big"
    THEN [v |-> MemObject(b, mem, u.c.current, 2), u |-> Advance(u, 2)]
    ELSE [v |-> OrW(Unsigned(ShlBytes(Lit(CurByte(mem, u), 4), 1), 2),
                    Unsigned(Lit(CurByte(mem, Advance(u, 1)), 4), 2)),
          u |-> Advance(u, 2)]

cw_load32(b, mem, u) ==
    IF b.byte_order = "big"
    THEN [v |-> MemObject(b, mem, u.c.current, 4), u |-> Advance(u, 4)]
    ELSE [v |-> OrW(OrW(ShlBytes(Lit(CurByte(mem, u), 4), 3),
                        ShlBytes(Lit(CurByte(mem, Advance(u, 1)), 4), 2)),
                    OrW(ShlBytes(Lit(CurByte(mem, Advance(u, 2)), 4), 1),
                        Lit(CurByte(mem, Advance(u, 3)), 4))),
          u |-> Advance(u, 4)]

\* cw_load64(unpack_context->current): stores item.as.u64.
cw_load64(b, mem, u) ==
    IF b.byte_order = "big"
    THEN [Advance(u, 4) EXCEPT
              !.c.item.as = [m |-> "u64", v |-> MemObject(b, mem, u.c.current, 8)]]
    ELSE IF b.byte_order = "little"
    THEN [Advance(u, 8) EXCEPT
              !.c.item.as = [m |-> "u64",
                             v |-> cw_swap64(MemObject(b, mem, u.c.current, 8))]]
    ELSE [Advance(u, 8) EXCEPT
              !.c.item.as =
                  [m |-> "u64",
                   v |-> OrW(OrW(OrW(ShlBytes(Lit(CurByte(mem, u), 8), 7),
                                     ShlBytes(Lit(CurByte(mem, Advance(u, 1)), 8), 6)),
                                 OrW(ShlBytes(Lit(CurByte(mem, Advance(u, 2)), 8), 5),
                                     ShlBytes(Lit(CurByte(mem, Advance(u, 3)), 8), 4))),
                             OrW(OrW(ShlBytes(Lit(CurByte(mem, Advance(u, 4)), 8), 3),
                                     ShlBytes(Lit(CurByte(mem, Advance(u, 5)), 8), 2)),
                                 OrW(ShlBytes(Lit(CurByte(mem, Advance(u, 6)), 8), 1),
                                     Lit(CurByte(mem, Advance(u, 7)), 8))))]]

\* cw_unpack_assert_space with the test against end off by one byte.
cw_unpack_assert_space_beyond(b, u, more, buffer_end_return_code) ==
    IF LtU(PtrAddU(u.c.end, Lit(1, 8)), PtrAddS(u.c.current, SLong(b, Unsigned(more, 8))))
    THEN IF u.c.handle_unpack_underflow = "NULL"
         THEN Stop([u EXCEPT !.c.return_code = buffer_end_return_code],
                   buffer_end_return_code)
         ELSE LET Called(r, q) ==
                      IF r.rc # 0
                      THEN IF r.rc # CWP_RC_END_OF_INPUT
                           THEN Stop([q EXCEPT !.c.return_code = r.rc], r.rc)
                           ELSE Stop([q EXCEPT !.c.return_code = buffer_end_return_code],
                                     buffer_end_return_code)
                      ELSE Cont(q)
                  Call(r) == Called(r, [u EXCEPT !.c = r.c,
                                                 !.h = Append(u.h, ULong(b, more))])
              IN  Call(handle_unpack_underflow(u, ULong(b, more)))
    ELSE Cont(u)

\* cw_unpack_assert_space(more): more is a word of its C type, never negative.
cw_unpack_assert_space(b, u, more, buffer_end_return_code) ==
    IF LtU(u.c.end, PtrAddS(u.c.current, SLong(b, Unsigned(more, 8))))
    THEN IF u.c.handle_unpack_underflow = "NULL"
         THEN Stop([u EXCEPT !.c.return_code = buffer_end_return_code],
                   buffer_end_return_code)
         ELSE LET Called(r, q) ==
                      IF r.rc # 0
                      THEN IF r.rc # CWP_RC_END_OF_INPUT
                           THEN Stop([q EXCEPT !.c.return_code = r.rc], r.rc)
                           ELSE Stop([q EXCEPT !.c.return_code = buffer_end_return_code],
                                     buffer_end_return_code)
                      ELSE Cont(q)
                  Call(r) == Called(r, [u EXCEPT !.c = r.c,
                                                 !.h = Append(u.h, ULong(b, more))])
              IN  Call(handle_unpack_underflow(u, ULong(b, more)))
    ELSE Cont(u)

\* (cast)x stored into a variable of varw bytes; cast = [signed, w].
Convert(x, cast, varw) ==
    IF cast.signed THEN SignExt(Unsigned(x, cast.w), varw)
    ELSE ZeroExt(Unsigned(x, cast.w), varw)

uint8_t == [signed |-> FALSE, w |-> 1]
uint16_t == [signed |-> FALSE, w |-> 2]
uint32_t == [signed |-> FALSE, w |-> 4]
int8_t == [signed |-> TRUE, w |-> 1]
int16_t == [signed |-> TRUE, w |-> 2]
int32_t == [signed |-> TRUE, w |-> 4]

\* The value of an int8_t byte.
Int8(byte) == IF byte >= 128 THEN byte - 256 ELSE byte

\* item.as.var = x, for var one of i64, u64 (8 bytes), map and array (.size,
\* 4 bytes), str, bin and ext (.length, 4 bytes; the blob's start is not yet
\* set), boolean and real.  The union holds the member stored last.
VarWidth(var) == IF var \in {"i64", "u64"} THEN 8 ELSE 4

SetAs(u, var, x) ==
    [u EXCEPT !.c.item.as =
        IF var \in {"str", "bin", "ext"}
        THEN [m |-> var, length |-> x, start |-> Indeterminate]
        ELSE [m |-> var, v |-> x]]

SetType(u, typ) == [u EXCEPT !.c.item.type = typ]

getDDItem(u, typ, var, val) == SetAs(SetType(u, typ), var, val)

getDDItem1(b, mem, u, typ, var, cast) ==
    Then(cw_unpack_assert_space(b, SetType(u, typ), Lit(1, 4), CWP_RC_BUFFER_UNDERFLOW),
         LAMBDA q : Cont(SetAs(Advance(q, 1), var,
                               Convert(Lit(CurByte(mem, q), 4), cast, VarWidth(var)))))

getDDItem2(b, mem, u, typ, var, cast) ==
    Then(cw_unpack_assert_space(b, SetType(u, typ), Lit(2, 4), CWP_RC_BUFFER_UNDERFLOW),
         LAMBDA q : LET Loaded(ld) ==
                            Cont(SetAs(ld.u, var, Convert(ld.v, cast, VarWidth(var))))
                    IN  Loaded(cw_load16(b, mem, q)))

getDDItem4(b, mem, u, typ, var, cast) ==
    Then(cw_unpack_assert_space(b, SetType(u, typ), Lit(4, 4), CWP_RC_BUFFER_UNDERFLOW),
         LAMBDA q : LET Loaded(ld) ==
                            Cont(SetAs(ld.u, var, Convert(ld.v, cast, VarWidth(var))))
                    IN  Loaded(cw_load32(b, mem, q)))

getDDItem8(b, mem, u, typ) ==
    Then(cw_unpack_assert_space(b, SetType(u, typ), Lit(8, 4), CWP_RC_BUFFER_UNDERFLOW),
         LAMBDA q : Cont(cw_load64(b, mem, q)))

\* cw_unpack_assert_blob: the length is item.as.<blob>.length, a uint32_t.
cw_unpack_assert_blob(b, u) ==
    Then(cw_unpack_assert_space(b, u, u.c.item.as.length, CWP_RC_BUFFER_UNDERFLOW),
         LAMBDA q : Cont([q EXCEPT !.c.item.as.start = q.c.current,
                                   !.c.current = PtrAddU(q.c.current,
                                                         q.c.item.as.length)]))

\* The type byte of an extension: item.type = *(int8_t*)current++.
ExtType(b, mem, u) ==
    Then(cw_unpack_assert_space(b, u, Lit(1, 4), CWP_RC_BUFFER_UNDERFLOW),
         LAMBDA q : Cont(SetType(Advance(q, 1), Int8(CurByte(mem, q)))))

getDDItemFix(b, mem, u, len) ==
    Then(ExtType(b, mem, u),
         LAMBDA q : cw_unpack_assert_blob(b, SetAs(q, "ext", Lit(len, 4))))

\* The case of the switch of cw_unpack_next that the prefix byte c selects:
\* the macro it opens with and that macro's arguments, and what follows the
\* macro (a break, cw_unpack_assert_blob, the type byte of an extension and
\* cw_unpack_assert_blob, or the test of the sign).
NextCase(c) ==
    LET Case(macro, typ, var, arg, tail) ==
            [macro |-> macro, typ |-> typ, var |-> var, arg |-> arg, tail |-> tail]
    IN  IF c <= \h7f
        THEN Case("getDDItem", CWP_ITEM_POSITIVE_INTEGER, "i64", Lit(c, 8), "break")
        ELSE IF c <= \h8f
        THEN Case("getDDItem", CWP_ITEM_MAP, "map", Lit(c % 16, 4), "break")
        ELSE IF c <= \h9f
        THEN Case("getDDItem", CWP_ITEM_ARRAY, "array", Lit(c % 16, 4), "break")
        ELSE IF c <= \hbf
        THEN Case("getDDItem", CWP_ITEM_STR, "str", Lit(c % 32, 4), "blob")
        ELSE IF c = \hc0 THEN Case("type", CWP_ITEM_NIL, "", <<>>, "break")
        ELSE IF c = \hc2 THEN Case("getDDItem", CWP_ITEM_BOOLEAN, "boolean", FALSE, "break")
        ELSE IF c = \hc3 THEN Case("getDDItem", CWP_ITEM_BOOLEAN, "boolean", TRUE, "break")
        ELSE IF c = \hc4 THEN Case("getDDItem1", CWP_ITEM_BIN, "bin", uint8_t, "blob")
        ELSE IF c = \hc5 THEN Case("getDDItem2", CWP_ITEM_BIN, "bin", uint16_t, "blob")
        ELSE IF c = \hc6 THEN Case("getDDItem4", CWP_ITEM_BIN, "bin", uint32_t, "blob")
        ELSE IF c = \hc7 THEN Case("getDDItem1", CWP_ITEM_EXT, "ext", uint8_t, "ext")
        ELSE IF c = \hc8 THEN Case("getDDItem2", CWP_ITEM_EXT, "ext", uint16_t, "ext")
        ELSE IF c = \hc9 THEN Case("getDDItem4", CWP_ITEM_EXT, "ext", uint32_t, "ext")
        ELSE IF c = \hca THEN Case("float", CWP_ITEM_FLOAT, "real", <<>>, "break")
        ELSE IF c = \hcb THEN Case("getDDItem8", CWP_ITEM_DOUBLE, "", <<>>, "break")
        ELSE IF c = \hcc
        THEN Case("getDDItem1", CWP_ITEM_POSITIVE_INTEGER, "u64", uint8_t, "break")
        ELSE IF c = \hcd
        THEN Case("getDDItem2", CWP_ITEM_POSITIVE_INTEGER, "u64", uint16_t, "break")
        ELSE IF c = \hce
        THEN Case("getDDItem4", CWP_ITEM_POSITIVE_INTEGER, "u64", uint32_t, "break")
        ELSE IF c = \hcf
        THEN Case("getDDItem8", CWP_ITEM_POSITIVE_INTEGER, "", <<>>, "break")
        ELSE IF c = \hd0
        THEN Case("getDDItem1", CWP_ITEM_NEGATIVE_INTEGER, "i64", int8_t, "sign")
        ELSE IF c = \hd1
        THEN Case("getDDItem2", CWP_ITEM_NEGATIVE_INTEGER, "i64", int16_t, "sign")
        ELSE IF c = \hd2
        THEN Case("getDDItem4", CWP_ITEM_NEGATIVE_INTEGER, "i64", int32_t, "sign")
        ELSE IF c = \hd3
        THEN Case("getDDItem8", CWP_ITEM_NEGATIVE_INTEGER, "", <<>>, "sign")
        ELSE IF c = \hd4 THEN Case("getDDItemFix", CWP_ITEM_EXT, "ext", 1, "break")
        ELSE IF c = \hd5 THEN Case("getDDItemFix", CWP_ITEM_EXT, "ext", 2, "break")
        ELSE IF c = \hd6 THEN Case("getDDItemFix", CWP_ITEM_EXT, "ext", 4, "break")
        ELSE IF c = \hd7 THEN Case("getDDItemFix", CWP_ITEM_EXT, "ext", 8, "break")
        ELSE IF c = \hd8 THEN Case("getDDItemFix", CWP_ITEM_EXT, "ext", 16, "break")
        ELSE IF c = \hd9 THEN Case("getDDItem1", CWP_ITEM_STR, "str", uint8_t, "blob")
        ELSE IF c = \hda THEN Case("getDDItem2", CWP_ITEM_STR, "str", uint16_t, "blob")
        ELSE IF c = \hdb THEN Case("getDDItem4", CWP_ITEM_STR, "str", uint32_t, "blob")
        ELSE IF c = \hdc THEN Case("getDDItem2", CWP_ITEM_ARRAY, "array", uint16_t, "break")
        ELSE IF c = \hdd THEN Case("getDDItem4", CWP_ITEM_ARRAY, "array", uint32_t, "break")
        ELSE IF c = \hde THEN Case("getDDItem2", CWP_ITEM_MAP, "map", uint16_t, "break")
        ELSE IF c = \hdf THEN Case("getDDItem4", CWP_ITEM_MAP, "map", uint32_t, "break")
        ELSE IF c >= \he0
        THEN Case("getDDItem", CWP_ITEM_NEGATIVE_INTEGER, "i64",
                  Convert(Lit(c, 4), int8_t, 8), "break")
        ELSE Case("default", 0, "", <<>>, "return")

\* case 0xca: the float, whose bits item.as.real holds.
LoadFloat(b, mem, u, typ) ==
    Then(cw_unpack_assert_space(b, SetType(u, typ), Lit(4, 4), CWP_RC_BUFFER_UNDERFLOW),
         LAMBDA q : LET Loaded(ld) == Cont([ld.u EXCEPT
                                               !.c.item.as = [m |-> "real", v |-> ld.v]])
                    IN  Loaded(cw_load32(b, mem, q)))

\* SignTest with > in the place of >=.
SignTest_strict(u) ==
    IF LtS(Lit(0, 8), u.c.item.as.v) THEN SetType(u, CWP_ITEM_POSITIVE_INTEGER) ELSE u

\* if (item.as.i64 >= 0) item.type = CWP_ITEM_POSITIVE_INTEGER.
SignTest(u) ==
    IF LeS(Lit(0, 8), u.c.item.as.v) THEN SetType(u, CWP_ITEM_POSITIVE_INTEGER) ELSE u

\* NextSwitch whose default case returns CWP_RC_MALFORMED_INPUT and does not
\* store it in return_code.
NextSwitch_unstored(b, mem, u, c) ==
    LET Rest(k, r) ==
            IF k.tail = "blob" THEN Then(r, LAMBDA q : cw_unpack_assert_blob(b, q))
            ELSE IF k.tail = "ext"
            THEN Then(Then(r, LAMBDA q : ExtType(b, mem, q)),
                      LAMBDA q : cw_unpack_assert_blob(b, q))
            ELSE IF k.tail = "sign" THEN Then(r, LAMBDA q : Cont(SignTest(q)))
            ELSE r
        Case(k) ==
            Rest(k,
                 CASE k.macro = "getDDItem" -> Cont(getDDItem(u, k.typ, k.var, k.arg))
                   [] k.macro = "type" -> Cont(SetType(u, k.typ))
                   [] k.macro = "getDDItem1" -> getDDItem1(b, mem, u, k.typ, k.var, k.arg)
                   [] k.macro = "getDDItem2" -> getDDItem2(b, mem, u, k.typ, k.var, k.arg)
                   [] k.macro = "getDDItem4" -> getDDItem4(b, mem, u, k.typ, k.var, k.arg)
                   [] k.macro = "getDDItem8" -> getDDItem8(b, mem, u, k.typ)
                   [] k.macro = "float" -> LoadFloat(b, mem, u, k.typ)
                   [] k.macro = "getDDItemFix" -> getDDItemFix(b, mem, u, k.arg)
                   [] OTHER -> Stop(u, CWP_RC_MALFORMED_INPUT))
    IN  Case(NextCase(c))

\* The switch of cw_unpack_next on the prefix byte c, after current++.
NextSwitch(b, mem, u, c) ==
    LET Rest(k, r) ==
            IF k.tail = "blob" THEN Then(r, LAMBDA q : cw_unpack_assert_blob(b, q))
            ELSE IF k.tail = "ext"
            THEN Then(Then(r, LAMBDA q : ExtType(b, mem, q)),
                      LAMBDA q : cw_unpack_assert_blob(b, q))
            ELSE IF k.tail = "sign" THEN Then(r, LAMBDA q : Cont(SignTest(q)))
            ELSE r
        Case(k) ==
            Rest(k,
                 CASE k.macro = "getDDItem" -> Cont(getDDItem(u, k.typ, k.var, k.arg))
                   [] k.macro = "type" -> Cont(SetType(u, k.typ))
                   [] k.macro = "getDDItem1" -> getDDItem1(b, mem, u, k.typ, k.var, k.arg)
                   [] k.macro = "getDDItem2" -> getDDItem2(b, mem, u, k.typ, k.var, k.arg)
                   [] k.macro = "getDDItem4" -> getDDItem4(b, mem, u, k.typ, k.var, k.arg)
                   [] k.macro = "getDDItem8" -> getDDItem8(b, mem, u, k.typ)
                   [] k.macro = "float" -> LoadFloat(b, mem, u, k.typ)
                   [] k.macro = "getDDItemFix" -> getDDItemFix(b, mem, u, k.arg)
                   [] OTHER -> Stop([u EXCEPT !.c.return_code = CWP_RC_MALFORMED_INPUT],
                                    CWP_RC_MALFORMED_INPUT))
    IN  Case(NextCase(c))

cw_unpack_next(b, mem, u) ==
    IF u.c.return_code # 0 THEN UReturn(u, CWP_RC_STOPPED)
    ELSE LET Done(r) == UReturn(r.u, r.rc)
         IN  Done(Then(cw_unpack_assert_space(b, u, Lit(1, 4), CWP_RC_END_OF_INPUT),
                       LAMBDA q : NextSwitch(b, mem, Advance(q, 1), CurByte(mem, q))))

\* cw_skip_bytes(n): n is a word of its C type, never negative.
cw_skip_bytes(b, u, n) ==
    Then(cw_unpack_assert_space(b, u, n, CWP_RC_BUFFER_UNDERFLOW),
         LAMBDA q : Cont([q EXCEPT !.c.current = PtrAddU(q.c.current, n)]))

\* One byte, two bytes, four bytes of length: [stop, rc, u, v] with v the
\* uint32_t or uint16_t read (tmpu32, tmpu16).
SkipLen(b, mem, u, w) ==
    LET Loaded(ld) == [stop |-> FALSE, rc |-> CWP_RC_OK, u |-> ld.u, v |-> ld.v]
        Load(r) ==
            IF r.stop THEN [stop |-> TRUE, rc |-> r.rc, u |-> r.u, v |-> <<>>]
            ELSE IF w = 1
            THEN Loaded([u |-> Advance(r.u, 1), v |-> Lit(CurByte(mem, r.u), 4)])
            ELSE IF w = 2 THEN Loaded(cw_load16(b, mem, r.u))
            ELSE Loaded(cw_load32(b, mem, r.u))
    IN  Load(cw_unpack_assert_space(b, u, Lit(w, 4), CWP_RC_BUFFER_UNDERFLOW))

\* The case of the switch of cw_skip_items that the prefix byte c selects:
\* nothing more to skip, n bytes to skip, a length of w bytes to load and
\* that many bytes (and extra) to skip, a count of items (in c, or to load
\* from w bytes), or no case at all.
SkipCase(c) ==
    LET Bytes(n) == [op |-> "bytes", n |-> n]
        Blob(w, extra) == [op |-> "blob", w |-> w, extra |-> extra]
        Items(w, twice) == [op |-> "items", w |-> w, twice |-> twice]
    IN  IF c <= \h7f \/ c >= \he0 \/ c \in {\hc0, \hc2, \hc3} THEN [op |-> "break"]
        ELSE IF c \in {\hcc, \hd0} THEN Bytes(1)
        ELSE IF c \in {\hcd, \hd1, \hd4} THEN Bytes(2)
        ELSE IF c = \hd5 THEN Bytes(3)
        ELSE IF c \in {\hca, \hce, \hd2} THEN Bytes(4)
        ELSE IF c = \hd6 THEN Bytes(5)
        ELSE IF c \in {\hcb, \hcf, \hd3} THEN Bytes(8)
        ELSE IF c = \hd7 THEN Bytes(9)
        ELSE IF c = \hd8 THEN Bytes(17)
        ELSE IF c \in \ha0..\hbf THEN Bytes(c % 32)
        ELSE IF c \in {\hd9, \hc4} THEN Blob(1, 0)
        ELSE IF c \in {\hda, \hc5} THEN Blob(2, 0)
        ELSE IF c \in {\hdb, \hc6} THEN Blob(4, 0)
        ELSE IF c \in \h80..\h8f THEN Items(0, TRUE)
        ELSE IF c \in \h90..\h9f THEN Items(0, FALSE)
        ELSE IF c = \hdc THEN Items(2, FALSE)
        ELSE IF c = \hde THEN Items(2, TRUE)
        ELSE IF c = \hdd THEN Items(4, FALSE)
        ELSE IF c = \hdf THEN Items(4, TRUE)
        ELSE IF c = \hc7 THEN Blob(1, 1)
        ELSE IF c = \hc8 THEN Blob(2, 1)
        ELSE IF c = \hc9 THEN Blob(4, 1)
        ELSE [op |-> "default"]

\* The switch of cw_skip_items on the prefix byte c, after current++:
\* [stop, rc, u, add], add the unsigned long or long added to item_count.
\* c & 15, 2*(c & 15), tmpu16 and 2*tmpu16 are ints; tmpu32 and 2*tmpu32 are
\* uint32_t.
SkipSwitch(b, mem, u, c) ==
    LET Zero == Lit(0, b.long_bits \div 8)
        Skipped(s) == [stop |-> s.stop, rc |-> s.rc, u |-> s.u, add |-> Zero]
        Counted(q, n) == [stop |-> FALSE, rc |-> CWP_RC_OK, u |-> q, add |-> n]
        Twice(k, v) == IF k.twice THEN AddW(v, v) ELSE v
        Use(k, r, v) ==
            IF r.stop THEN [stop |-> TRUE, rc |-> r.rc, u |-> r.u, add |-> Zero]
            ELSE IF k.op = "items"
            THEN Counted(r.u, IF k.w = 2 THEN SLong(b, ZeroExt(Twice(k, v), 8))
                              ELSE ULong(b, Twice(k, v)))
            ELSE Skipped(cw_skip_bytes(b, r.u, IF k.op = "blob"
                                               THEN AddW(v, Lit(k.extra, 4)) ELSE v))
        Length(k, r) == Use(k, r, IF r.stop THEN <<>> ELSE ZeroExt(r.v, 4))
        Case(k) ==
            IF k.op = "break" THEN Counted(u, Zero)
            ELSE IF k.op = "default"
            THEN [stop |-> TRUE, rc |-> CWP_RC_MALFORMED_INPUT,
                  u |-> [u EXCEPT !.c.return_code = CWP_RC_MALFORMED_INPUT],
                  add |-> Zero]
            ELSE IF k.op = "items" /\ k.w = 0
            THEN Counted(u, SLong(b, Lit(IF k.twice THEN 2 * (c % 16) ELSE c % 16, 8)))
            ELSE IF k.op = "bytes"
            THEN Length(k, [stop |-> FALSE, rc |-> CWP_RC_OK, u |-> u,
                            v |-> Lit(k.n, 4)])
            ELSE Length(k, SkipLen(b, mem, u, k.w))
    IN  Case(SkipCase(c))

\* What cw_skip_items returns, and the iterations of its loop that were begun.
SkipReturn(u, rc, n) == [c |-> u.c, src |-> u.src, h |-> u.h, rc |-> rc, iterations |-> n]

\* while (item_count-- > 0) { ... }: item_count is a long; done counts the
\* iterations before this test.
RECURSIVE SkipLoop(_, _, _, _, _)
SkipLoop(b, mem, u, item_count, done) ==
    LET Switched(s) ==
            IF s.stop THEN SkipReturn(s.u, s.rc, done + 1)
            ELSE SkipLoop(b, mem, s.u,
                          AddW(SubW(item_count, Lit(1, b.long_bits \div 8)), s.add),
                          done + 1)
        Body(r) ==
            IF r.stop THEN SkipReturn(r.u, r.rc, done + 1)
            ELSE Switched(SkipSwitch(b, mem, Advance(r.u, 1), CurByte(mem, r.u)))
    IN  IF ~LtS(Lit(0, b.long_bits \div 8), item_count) THEN SkipReturn(u, CWP_RC_OK, done)
        ELSE Body(cw_unpack_assert_space(b, u, Lit(1, 4), CWP_RC_END_OF_INPUT))

\* cw_skip_items without its test of return_code.
cw_skip_items_unguarded(b, mem, u, item_count) == SkipLoop(b, mem, u, item_count, 0)

cw_skip_items(b, mem, u, item_count) ==
    IF u.c.return_code # 0 THEN SkipReturn(u, CWP_RC_STOPPED, 0)
    ELSE SkipLoop(b, mem, u, item_count, 0)

(***************************************************************************)
(* The state machine: a caller that packs into one buffer and then reads   *)
(* it back, or that reads a buffer it was given.                           *)
(***************************************************************************)

VARIABLES
    build,              \* the build the library was compiled as
    mem,                \* memory
    pack_context,       \* the cw_pack_context
    unpack_context,     \* the cw_unpack_context
    source,             \* where the data behind the unpacker's window ends
    call,               \* the last call: op, args, rc, h, pre (the context before)
    sent,               \* the items packed so far: op, args, at (where it starts)
    input,              \* what is known of a buffer the caller was given
    reading,            \* the caller has constructed the unpacker
    pack_calls_left,    \* pack calls the caller will still make
    unpack_calls_left   \* unpack calls the caller will still make

vars == <<build, mem, pack_context, unpack_context, source, call, sent, input,
          reading, pack_calls_left, unpack_calls_left>>

\* Bounds of the model: the pack calls and the unpack calls of a session, the
\* size of its buffer, the items one call skips.
MaxItems == 2
MaxReads == 2
MaxCap == 2
MaxSkip == 1

\* Where the caller's buffers lie.
PackBase == Hex64(\h00, \h00, \h01, \h00, \h00, \h00, \h00, \h00)

\* A context not constructed yet.
NoPackContext ==
    [start |-> Indeterminate, current |-> Indeterminate, end |-> Indeterminate,
     return_code |-> Indeterminate, handle_pack_overflow |-> Indeterminate]

NoUnpackContext ==
    [start |-> Indeterminate, current |-> Indeterminate, end |-> Indeterminate,
     return_code |-> Indeterminate, handle_unpack_underflow |-> Indeterminate,
     item |-> [type |-> Indeterminate, as |-> Indeterminate]]

NoCall == [op |-> "none", args |-> <<>>, rc |-> CWP_RC_OK, h |-> <<>>, pre |-> <<>>]

PackOps ==
    {"cw_pack_unsigned", "cw_pack_signed", "cw_pack_float", "cw_pack_double",
     "cw_pack_nil", "cw_pack_boolean", "cw_pack_array_size", "cw_pack_map_size",
     "cw_pack_str", "cw_pack_bin", "cw_pack_ext"}

UnpackOps == {"cw_unpack_next", "cw_skip_items"}

\* The caller has a packer over a buffer of cap bytes (length is an unsigned
\* long: a buffer has a size that type holds), makes n pack calls and then up
\* to r unpack calls.
InitPacker(caps, n, r) ==
    /\ build \in Builds
    /\ mem = <<>>
    /\ \E cap \in {x \in caps : ZeroExt(ULong(build, x), 8) = x}, hpo \in PackHandlers :
           pack_context =
               cw_pack_context_init(build, NoPackContext, PackBase, cap, hpo).c
    /\ unpack_context = NoUnpackContext
    /\ source = PackBase
    /\ call = NoCall
    /\ sent = <<>>
    /\ input = <<>>
    /\ reading = FALSE
    /\ pack_calls_left = n
    /\ unpack_calls_left = r

\* A pack call that ends as r.
CanPack == ~reading /\ pack_calls_left > 0

PackCall(op, args, r) ==
    /\ pack_context' = r.c
    /\ mem' = r.m
    /\ call' = [op |-> op, args |-> args, rc |-> r.rc, h |-> r.h, pre |-> pack_context]
    /\ sent' = IF r.rc = CWP_RC_OK
               THEN Append(sent, [op |-> op, args |-> args, at |-> pack_context.current])
               ELSE sent
    /\ pack_calls_left' = pack_calls_left - 1
    /\ UNCHANGED <<build, unpack_context, source, input, reading, unpack_calls_left>>

Packer == [c |-> pack_context, m |-> mem, h |-> <<>>]

CwPackUnsigned(i) ==
    /\ CanPack
    /\ PackCall("cw_pack_unsigned", <<i>>, cw_pack_unsigned(build, Packer, i))

CwPackSigned(i) ==
    /\ CanPack
    /\ PackCall("cw_pack_signed", <<i>>, cw_pack_signed(build, Packer, i))

CwPackFloat(f) ==
    /\ CanPack
    /\ PackCall("cw_pack_float", <<f>>, cw_pack_float(build, Packer, f))

CwPackDouble(d) ==
    /\ CanPack
    /\ PackCall("cw_pack_double", <<d>>, cw_pack_double(build, Packer, d))

CwPackNil ==
    /\ CanPack
    /\ PackCall("cw_pack_nil", <<>>, cw_pack_nil(build, Packer))

CwPackBoolean(v) ==
    /\ CanPack
    /\ PackCall("cw_pack_boolean", <<v>>, cw_pack_boolean(build, Packer, v))

CwPackArraySize(n) ==
    /\ CanPack
    /\ PackCall("cw_pack_array_size", <<n>>, cw_pack_array_size(build, Packer, n))

CwPackMapSize(n) ==
    /\ CanPack
    /\ PackCall("cw_pack_map_size", <<n>>, cw_pack_map_size(build, Packer, n))

CwPackStr(v, l) ==
    /\ CanPack
    /\ PackCall("cw_pack_str", <<v, l>>, cw_pack_str(build, Packer, v, l))

CwPackBin(v, l) ==
    /\ CanPack
    /\ PackCall("cw_pack_bin", <<v, l>>, cw_pack_bin(build, Packer, v, l))

CwPackExt(type, v, l) ==
    /\ CanPack
    /\ PackCall("cw_pack_ext", <<type, v, l>>, cw_pack_ext(build, Packer, type, v, l))

\* The caller constructs the unpacker over the first bytes the packer wrote:
\* all of them, or a window that leaves the rest to the underflow handler.
Written == SubW(pack_context.current, pack_context.start)

CwUnpackContextInit(len, huu) ==
    /\ ~reading
    /\ call.op \in PackOps
    /\ LeU(len, Written)
    /\ reading' = TRUE
    /\ unpack_context' =
           cw_unpack_context_init(build, unpack_context, pack_context.start, len, huu).c
    /\ source' = pack_context.current
    /\ call' = [op |-> "cw_unpack_context_init", args |-> <<len, huu>>,
                rc |-> CWP_RC_OK, h |-> <<>>, pre |-> unpack_context]
    /\ UNCHANGED <<build, mem, pack_context, sent, input, pack_calls_left,
                   unpack_calls_left>>

\* An unpack call that ends as r.
CanUnpack == reading /\ unpack_calls_left > 0

UnpackCall(op, args, r) ==
    /\ unpack_context' = r.c
    /\ call' = [op |-> op, args |-> args, rc |-> r.rc, h |-> r.h, pre |-> unpack_context]
    /\ unpack_calls_left' = unpack_calls_left - 1
    /\ UNCHANGED <<build, mem, pack_context, source, sent, input, reading, pack_calls_left>>

Unpacker == [c |-> unpack_context, src |-> source, h |-> <<>>]

CwUnpackNext ==
    /\ CanUnpack
    /\ UnpackCall("cw_unpack_next", <<>>, cw_unpack_next(build, mem, Unpacker))

\* item_count is a long.
CwSkipItems(n) ==
    /\ CanUnpack
    /\ UnpackCall("cw_skip_items", <<n>>,
                  cw_skip_items(build, mem, Unpacker, SLit(n, build.long_bits \div 8)))

(***************************************************************************)
(* Spec: a caller that packs up to MaxItems items from a small choice into *)
(* a buffer of MaxCap bytes and reads them back with up to MaxReads calls. *)
(***************************************************************************)

\* 1.5 as a float and as a double.
FloatBits == Hex32(\h3f, \hc0, \h00, \h00)

DoubleBits == Hex64(\h3f, \hf8, \h00, \h00, \h00, \h00, \h00, \h00)

MaxU32 == Hex32(\hff, \hff, \hff, \hff)

Init == InitPacker({Lit(MaxCap, 8)}, MaxItems, MaxReads)

Next ==
    \/ \E i \in {Lit(1, 8), Lit(300, 8)} : CwPackUnsigned(i)
    \/ \E i \in {SLit(-1, 8), SLit(-200, 8)} : CwPackSigned(i)
    \/ CwPackFloat(FloatBits)
    \/ CwPackDouble(DoubleBits)
    \/ CwPackNil
    \/ \E v \in BOOLEAN : CwPackBoolean(v)
    \/ CwPackArraySize(Lit(2, 4))
    \/ CwPackMapSize(Lit(1, 4))
    \/ \E l \in {Lit(1, 4), SubW(MaxU32, Lit(4, 4))} : CwPackStr(\h68, l)
    \/ CwPackBin(1, Lit(1, 4))
    \/ CwPackExt(SLit(7, 1), 1, Lit(1, 4))
    \/ \E huu \in UnpackHandlers : CwUnpackContextInit(Written, huu)
    \/ CwUnpackNext
    \/ \E n \in 1..MaxSkip : CwSkipItems(n)

Spec == Init /\ [][Next]_vars

\* C1: once a context's return_code is not CWP_RC_OK, every pack operation
\* (on a pack context), cw_unpack_next and cw_skip_items (on an unpack
\* context) return CWP_RC_STOPPED, call no handler, and leave the context
\* (start, current, end, return_code) and every byte of memory as they were.
C1_StickyPoison ==
    [][/\ (pack_calls_left' # pack_calls_left /\ pack_context.return_code # CWP_RC_OK)
          => /\ call'.op \in PackOps
             /\ call'.rc = CWP_RC_STOPPED
             /\ call'.h = <<>>
             /\ pack_context' = pack_context
             /\ mem' = mem
       /\ (unpack_calls_left' # unpack_calls_left
             /\ unpack_context.return_code # CWP_RC_OK)
          => /\ call'.op \in UnpackOps
             /\ call'.rc = CWP_RC_STOPPED
             /\ call'.h = <<>>
             /\ unpack_context' = unpack_context
             /\ mem' = mem]_vars

\* A session in which the first pack call failed, the second was made on the
\* poisoned pack context, and the last unpack call was made on a poisoned
\* unpack context; both contexts have a handler.
C1_Witness ==
    /\ sent = <<>>
    /\ pack_calls_left = 0
    /\ pack_context.return_code # CWP_RC_OK
    /\ pack_context.handle_pack_overflow # "NULL"
    /\ call.op \in UnpackOps
    /\ call.pre.return_code # CWP_RC_OK
    /\ call.pre.handle_unpack_underflow # "NULL"
    /\ call.rc = CWP_RC_STOPPED

(***************************************************************************)
(* SpecItem: a caller that packs one item, of any kind and from the whole  *)
(* range of its argument, into a buffer that may be too small for it or    *)
(* large enough for every item, and then reads back what was written.      *)
(***************************************************************************)

ItemCaps ==
    {Lit(0, 8), Lit(1, 8), Lit(2, 8), Lit(4, 8), Lit(8, 8), Lit(17, 8),
     Hex64(\h00, \h00, \h00, \h00, \hff, \hff, \hff, \hff),
     Hex64(\h00, \h00, \h00, \h02, \h00, \h00, \h00, \h00)}

ItemUnsigned ==
    {Lit(0, 8), Lit(127, 8), Lit(128, 8), Lit(255, 8), Lit(256, 8), Lit(300, 8),
     Lit(65535, 8), Lit(65536, 8),
     Hex64(\h00, \h00, \h00, \h00, \h12, \h34, \h56, \h78),
     Hex64(\h00, \h00, \h00, \h00, \hff, \hff, \hff, \hff),
     Hex64(\h00, \h00, \h00, \h01, \h00, \h00, \h00, \h00),
     Hex64(\h01, \h02, \h03, \h04, \h05, \h06, \h07, \h08),
     Hex64(\hff, \hff, \hff, \hff, \hff, \hff, \hff, \hff)}

ItemSigned ==
    {SLit(5, 8), SLit(-1, 8), SLit(-32, 8), SLit(-33, 8), SLit(-128, 8),
     SLit(-129, 8), SLit(-32768, 8), SLit(-32769, 8),
     Hex64(\h7f, \hff, \hff, \hff, \hff, \hff, \hff, \hff),
     Hex64(\hff, \hff, \hff, \hff, \h80, \h00, \h00, \h00),
     Hex64(\hff, \hff, \hff, \hff, \h7f, \hff, \hff, \hff),
     Hex64(\h80, \h00, \h00, \h00, \h00, \h00, \h00, \h00)}

\* 1.5 and -3.14159... as a float and as a double.
ItemFloat == {FloatBits, Hex32(\hc0, \h49, \h0f, \hdb)}

ItemDouble == {DoubleBits, Hex64(\hc0, \h09, \h21, \hfb, \h54, \h44, \h2d, \h18)}

ItemCount ==
    {Lit(0, 4), Lit(3, 4), Lit(15, 4), Lit(16, 4), Lit(300, 4), Lit(65535, 4),
     Lit(65536, 4), MaxU32}

ItemLength ==
    {Lit(0, 4), Lit(1, 4), Lit(2, 4), Lit(31, 4), Lit(32, 4), Lit(255, 4),
     Lit(256, 4), Lit(65535, 4), Lit(65536, 4),
     Hex32(\h80, \h00, \h00, \h00), SubW(MaxU32, Lit(5, 4)),
     SubW(MaxU32, Lit(4, 4)), MaxU32}

ItemExtLength ==
    ItemLength \cup {Lit(3, 4), Lit(4, 4), Lit(8, 4), Lit(16, 4), Lit(17, 4)}

\* The type of an extension and the first byte of a blob.
ItemExtType == {SLit(7, 1), SLit(-1, 1), SLit(-128, 1)}

ItemBlob == {\h68, \hff}

InitItem == InitPacker(ItemCaps, 1, 1)

NextItem ==
    \/ \E i \in ItemUnsigned : CwPackUnsigned(i)
    \/ \E i \in ItemSigned : CwPackSigned(i)
    \/ \E f \in ItemFloat : CwPackFloat(f)
    \/ \E d \in ItemDouble : CwPackDouble(d)
    \/ CwPackNil
    \/ \E v \in BOOLEAN : CwPackBoolean(v)
    \/ \E n \in ItemCount : CwPackArraySize(n)
    \/ \E n \in ItemCount : CwPackMapSize(n)
    \/ \E v \in ItemBlob, l \in ItemLength : CwPackStr(v, l)
    \/ \E l \in ItemLength : CwPackBin(\h68, l)
    \/ \E l \in ItemExtLength : CwPackExt(SLit(7, 1), \h68, l)
    \/ \E type \in ItemExtType : CwPackExt(type, \hff, Lit(3, 4))
    \/ CwUnpackContextInit(Written, "NULL")
    \/ CwUnpackNext
    \/ CwSkipItems(1)

SpecItem == InitItem /\ [][NextItem]_vars

(***************************************************************************)
(* The wire format of one packed item, as the format's table gives it: the *)
(* header (tag byte, big-endian value or length, type byte of an           *)
(* extension) and the blob that follows it.                                *)
(***************************************************************************)

\* The bytes of v up to its most significant non-zero byte: ceil(log_256(v+1)).
SigBytes(v) ==
    IF IsZero(v) THEN 0 ELSE CHOOSE k \in 1..Len(v) :
                                 v[k] # 0 /\ \A j \in (k + 1)..Len(v) : v[j] = 0

\* The n low bytes of x, most significant byte first.
BigEndian(x, n) == [k \in 1..n |-> x[n + 1 - k]]

\* The n low bytes of the negative v hold it as a two's-complement number.
FitsSigned(v, n) == v[n] >= 128 /\ \A j \in (n + 1)..Len(v) : v[j] = 255

WireUnsigned(v) ==
    IF SigBytes(v) <= 1 /\ v[1] < 128 THEN <<v[1]>>
    ELSE IF SigBytes(v) <= 1 THEN <<\hcc, v[1]>>
    ELSE IF SigBytes(v) <= 2 THEN <<\hcd>> \o BigEndian(v, 2)
    ELSE IF SigBytes(v) <= 4 THEN <<\hce>> \o BigEndian(v, 4)
    ELSE <<\hcf>> \o BigEndian(v, 8)

WireSigned(v) ==
    IF v[8] < 128 THEN WireUnsigned(v)
    ELSE IF FitsSigned(v, 1) /\ v[1] >= \he0 THEN <<v[1]>>
    ELSE IF FitsSigned(v, 1) THEN <<\hd0, v[1]>>
    ELSE IF FitsSigned(v, 2) THEN <<\hd1>> \o BigEndian(v, 2)
    ELSE IF FitsSigned(v, 4) THEN <<\hd2>> \o BigEndian(v, 4)
    ELSE <<\hd3>> \o BigEndian(v, 8)

\* An array or map header: fix is 0x90 or 0x80, t16 and t32 the tags.
WireCount(n, fix, t16, t32) ==
    IF SigBytes(n) <= 1 /\ n[1] < 16 THEN <<fix + n[1]>>
    ELSE IF SigBytes(n) <= 2 THEN <<t16>> \o BigEndian(n, 2)
    ELSE <<t32>> \o BigEndian(n, 4)

\* A str, bin or ext 8/16/32 header up to its length field.
WireLength(l, t8, t16, t32) ==
    IF SigBytes(l) <= 1 THEN <<t8, l[1]>>
    ELSE IF SigBytes(l) <= 2 THEN <<t16>> \o BigEndian(l, 2)
    ELSE <<t32>> \o BigEndian(l, 4)

WireStr(l) ==
    IF SigBytes(l) <= 1 /\ l[1] < 32 THEN <<\ha0 + l[1]>>
    ELSE WireLength(l, \hd9, \hda, \hdb)

WireExt(type, l) ==
    IF l = Lit(1, 4) THEN <<\hd4, type[1]>>
    ELSE IF l = Lit(2, 4) THEN <<\hd5, type[1]>>
    ELSE IF l = Lit(4, 4) THEN <<\hd6, type[1]>>
    ELSE IF l = Lit(8, 4) THEN <<\hd7, type[1]>>
    ELSE IF l = Lit(16, 4) THEN <<\hd8, type[1]>>
    ELSE WireLength(l, \hc7, \hc8, \hc9) \o <<type[1]>>

WireHead(op, args) ==
    CASE op = "cw_pack_unsigned" -> WireUnsigned(args[1])
      [] op = "cw_pack_signed" -> WireSigned(args[1])
      [] op = "cw_pack_float" -> <<\hca>> \o BigEndian(args[1], 4)
      [] op = "cw_pack_double" -> <<\hcb>> \o BigEndian(args[1], 8)
      [] op = "cw_pack_nil" -> <<\hc0>>
      [] op = "cw_pack_boolean" -> IF args[1] THEN <<\hc3>> ELSE <<\hc2>>
      [] op = "cw_pack_array_size" -> WireCount(args[1], \h90, \hdc, \hdd)
      [] op = "cw_pack_map_size" -> WireCount(args[1], \h80, \hde, \hdf)
      [] op = "cw_pack_str" -> WireStr(args[2])
      [] op = "cw_pack_bin" -> WireLength(args[2], \hc4, \hc5, \hc6)
      [] op = "cw_pack_ext" -> WireExt(args[1], args[3])

\* The blob of the item: its first byte v and its length l; no blob has l = 0.
WireBlob(op, args) ==
    IF op \in {"cw_pack_str", "cw_pack_bin"} THEN [v |-> args[1], l |-> args[2]]
    ELSE IF op = "cw_pack_ext" THEN [v |-> args[2], l |-> args[3]]
    ELSE [v |-> 0, l |-> Lit(0, 4)]

\* The size of the item on the wire, a 64-bit number.
WireSize(op, args) ==
    AddW(Lit(Len(WireHead(op, args)), 8), ZeroExt(WireBlob(op, args).l, 8))

\* Offsets into a blob of l bytes at which its bytes are compared: the first
\* two and the last.
BlobSamples(l) ==
    {i \in {Lit(0, 8), Lit(1, 8), SubW(ZeroExt(l, 8), Lit(1, 8))} : LtU(i, ZeroExt(l, 8))}

\* The item op(args) lies in memory at address at.
WireAt(op, args, at) ==
    /\ \A k \in 1..Len(WireHead(op, args)) :
           MemRead(mem, AddW(at, Lit(k - 1, 8))) = WireHead(op, args)[k]
    /\ \A i \in BlobSamples(WireBlob(op, args).l) :
           MemRead(mem, AddW(AddW(at, Lit(Len(WireHead(op, args)), 8)), i))
               = (WireBlob(op, args).v + i[1]) % 256

\* The last call was a pack operation on an OK context with room for the item.
PackedWithRoom ==
    /\ call.op \in PackOps
    /\ call.pre.return_code = CWP_RC_OK
    /\ LeU(WireSize(call.op, call.args), SubW(call.pre.end, call.pre.current))

\* C2: on an OK context with enough room each pack operation returns OK,
\* writes at current exactly the tag byte and the big-endian payload that the
\* format's table gives for its input, followed by the blob, and advances
\* current by exactly the size of the item.
C2_LadderConformance ==
    PackedWithRoom =>
        /\ call.rc = CWP_RC_OK
        /\ pack_context.return_code = CWP_RC_OK
        /\ pack_context.current = AddW(call.pre.current, WireSize(call.op, call.args))
        /\ WireAt(call.op, call.args, call.pre.current)

\* The caller packed one item into a buffer large enough for it and then made
\* its first cw_unpack_next on exactly the bytes written.
ReadBack ==
    /\ reading
    /\ Len(sent) = 1
    /\ LeU(WireSize(sent[1].op, sent[1].args), SubW(pack_context.end, sent[1].at))
    /\ call.op = "cw_unpack_next"
    /\ call.pre.current = sent[1].at
    /\ call.pre.end = pack_context.current

\* The blob of the item starts at address at and holds the bytes of the
\* caller's blob v of l bytes.
BlobIs(as, at, v, l) ==
    /\ as.length = l
    /\ as.start = at
    /\ \A i \in BlobSamples(l) : MemRead(mem, AddW(at, i)) = (v + i[1]) % 256

\* The type and the payload of the item are those of the value op(args)
\* packed at address at.
ItemIs(item, op, args, at) ==
    LET blob == AddW(at, Lit(Len(WireHead(op, args)), 8))
    IN  CASE op = "cw_pack_unsigned" ->
                 item.type = CWP_ITEM_POSITIVE_INTEGER /\ item.as.v = args[1]
          [] op = "cw_pack_signed" ->
                 /\ item.type = IF args[1][8] < 128 THEN CWP_ITEM_POSITIVE_INTEGER
                                ELSE CWP_ITEM_NEGATIVE_INTEGER
                 /\ item.as.v = args[1]
          [] op = "cw_pack_float" -> item.type = CWP_ITEM_FLOAT /\ item.as.v = args[1]
          [] op = "cw_pack_double" -> item.type = CWP_ITEM_DOUBLE /\ item.as.v = args[1]
          [] op = "cw_pack_nil" -> item.type = CWP_ITEM_NIL
          [] op = "cw_pack_boolean" ->
                 item.type = CWP_ITEM_BOOLEAN /\ item.as.v = args[1]
          [] op = "cw_pack_array_size" ->
                 item.type = CWP_ITEM_ARRAY /\ item.as.v = args[1]
          [] op = "cw_pack_map_size" -> item.type = CWP_ITEM_MAP /\ item.as.v = args[1]
          [] op = "cw_pack_str" ->
                 item.type = CWP_ITEM_STR /\ BlobIs(item.as, blob, args[1], args[2])
          [] op = "cw_pack_bin" ->
                 item.type = CWP_ITEM_BIN /\ BlobIs(item.as, blob, args[1], args[2])
          [] op = "cw_pack_ext" ->
                 /\ item.type = Int8(args[1][1])
                 /\ BlobIs(item.as, blob, args[2], args[3])

\* C3: packing a value into a sufficiently large buffer and calling
\* cw_unpack_next on exactly the bytes written returns OK, consumes exactly
\* those bytes and yields an item whose type and payload are the value's
\* category and value (a signed value >= 0 reads as a positive integer).
C3_RoundTrip ==
    ReadBack =>
        /\ call.rc = CWP_RC_OK
        /\ unpack_context.return_code = CWP_RC_OK
        /\ unpack_context.current = unpack_context.end
        /\ unpack_context.current
               = AddW(sent[1].at, WireSize(sent[1].op, sent[1].args))
        /\ ItemIs(unpack_context.item, sent[1].op, sent[1].args, sent[1].at)

\* The last call was a cw_pack_unsigned that packed its value.
PackedUnsigned == call.op = "cw_pack_unsigned" /\ call.rc = CWP_RC_OK

\* The bytes the last pack call emitted: how far it advanced current.
Emitted == SubW(pack_context.current, call.pre.current)

\* C4 as the specification words it: cw_pack_unsigned(v) emits
\* ceil(log_256(v+1)) payload bytes plus one tag byte, and one byte in total
\* for v < 128.
C4_ShortestLog256 ==
    PackedUnsigned =>
        Emitted = IF SigBytes(call.args[1]) <= 1 /\ call.args[1][1] < 128
                  THEN Lit(1, 8)
                  ELSE Lit(SigBytes(call.args[1]) + 1, 8)

\* The smallest of the payload widths 1, 2, 4, 8 that holds v.
PayloadWidth(v) == CHOOSE w \in {1, 2, 4, 8} :
                       SigBytes(v) <= w /\ \A x \in {1, 2, 4, 8} : SigBytes(v) <= x => w <= x

\* C4: a cw_pack_unsigned(v) that returns OK emits one tag byte plus the
\* smallest of 1, 2, 4 or 8 payload bytes that holds v (ceil(log_256(v+1))
\* rounded up to a width the format has), and one byte in total for v < 128.
C4_ShortestWidth ==
    PackedUnsigned =>
        Emitted = IF SigBytes(call.args[1]) <= 1 /\ call.args[1][1] < 128
                  THEN Lit(1, 8)
                  ELSE Lit(PayloadWidth(call.args[1]) + 1, 8)

\* A value of three or of five significant bytes was packed.
C4_Witness ==
    /\ PackedUnsigned
    /\ SigBytes(call.args[1]) \in {3, 5}
    /\ Emitted = Lit(PayloadWidth(call.args[1]) + 1, 8)

\* A pack operation is called on an OK context that has no overflow handler
\* and less room than the item takes on the wire.
PackTooLarge ==
    /\ pack_calls_left' # pack_calls_left
    /\ pack_context.return_code = CWP_RC_OK
    /\ pack_context.handle_pack_overflow = "NULL"
    /\ LtU(SubW(pack_context.end, pack_context.current),
           WireSize(call'.op, call'.args))

\* C6: with no overflow handler, a pack operation whose item needs more
\* bytes than end - current returns CWP_RC_BUFFER_OVERFLOW, stores it in
\* return_code and leaves current and every byte of memory as they were.
C6_OverflowNoHandler ==
    [][PackTooLarge =>
          /\ call'.rc = CWP_RC_BUFFER_OVERFLOW
          /\ pack_context'.return_code = CWP_RC_BUFFER_OVERFLOW
          /\ pack_context'.current = pack_context.current
          /\ mem' = mem]_vars

\* start <= current <= end in a context.
InWindow(c) == LeU(c.start, c.current) /\ LeU(c.current, c.end)

\* C9: in a context with no handler start <= current <= end holds after the
\* initialization and after every pack operation, cw_unpack_next and
\* cw_skip_items, whatever it returned.
C9_WindowInvariant ==
    /\ pack_context.handle_pack_overflow = "NULL" => InWindow(pack_context)
    /\ (reading /\ unpack_context.handle_unpack_underflow = "NULL")
           => InWindow(unpack_context)

(***************************************************************************)
(* SpecStream: a caller that was given a byte stream and reads it with     *)
(* cw_unpack_next and cw_skip_items.  A stream is [bytes: its first bytes, *)
(* fill: how many 0x00 bytes (each the integer 0) follow them, k: how many *)
(* complete top-level items it is made of (0: not said to be legal),       *)
(* windows: the lengths of the window the caller gives the unpacker first, *)
(* handlers: the underflow handlers it may install].  What lies behind the *)
(* window is left to the handler.                                          *)
(***************************************************************************)

Stream(bytes, fill, k, windows, handlers) ==
    [bytes |-> bytes, fill |-> fill, k |-> k, windows |-> windows,
     handlers |-> handlers]

\* The length of the stream.
Total(s) == AddW(Lit(Len(s.bytes), 8), s.fill)

\* Every length at which the bytes can be cut.
Truncations(bytes) == {Lit(n, 8) : n \in 0..Len(bytes)}

\* Every prefix byte, followed by enough zero bytes to complete the item.
PrefixStreams ==
    {Stream(<<c>>, Lit(17, 8), 0, {Lit(18, 8)}, {"NULL"}) : c \in 0..255}

\* One item of every kind, and nested and consecutive items, cut at every
\* length.
Items ==
    {<<\h01>>, <<\hc0>>, <<\hc1>>, <<\hcc, \hff>>, <<\hcd, \h01, \h2c>>,
     <<\hce, \h00, \h01, \h00, \h00>>,
     <<\hcf, \h01, \h02, \h03, \h04, \h05, \h06, \h07, \h08>>,
     <<\hd0, \hdf>>, <<\hd0, \h05>>, <<\hd1, \hff, \h7f>>,
     <<\hd2, \hff, \hff, \h7f, \hff>>,
     <<\hd3, \h80, \h00, \h00, \h00, \h00, \h00, \h00, \h00>>,
     <<\hca, \h3f, \hc0, \h00, \h00>>,
     <<\hcb, \h3f, \hf8, \h00, \h00, \h00, \h00, \h00, \h00>>,
     <<\ha2, \h68, \h69>>, <<\ha0>>, <<\hd9, \h02, \h68, \h69>>,
     <<\hda, \h00, \h02, \h68, \h69>>, <<\hdb, \h00, \h00, \h00, \h02, \h68, \h69>>,
     <<\hc4, \h01, \h68>>, <<\hc5, \h00, \h01, \h68>>,
     <<\hc6, \h00, \h00, \h00, \h01, \h68>>,
     <<\hc7, \h02, \h07, \h68, \h69>>, <<\hc7, \h00, \h07>>,
     <<\hc8, \h00, \h01, \hff, \h68>>, <<\hc9, \h00, \h00, \h00, \h01, \h80, \h68>>,
     <<\hd4, \h07, \h01>>, <<\hd5, \h07, \h01, \h02>>,
     <<\hd6, \h07, \h01, \h02, \h03, \h04>>,
     <<\hdc, \h00, \h01, \hc0>>, <<\hdd, \h00, \h00, \h00, \h01, \hc0>>,
     <<\hde, \h00, \h01, \hc0, \hc0>>, <<\hdf, \h00, \h00, \h00, \h01, \hc0, \hc0>>,
     <<\h93, \h01, \h02, \h03>>, <<\h81, \ha1, \h61, \hc0>>,
     <<\h92, \h91, \h01, \h81, \ha1, \h61, \hc3>>, <<\h93, \h01, \hc1, \h03>>}

ItemStreams ==
    {Stream(b, Lit(0, 8), IF \hc1 \in {b[i] : i \in 1..Len(b)} THEN 0 ELSE 1,
            Truncations(b), UnpackHandlers) : b \in Items}
    \cup {Stream(<<\hd7, \h07>>, Lit(8, 8), 1,
                 {Lit(0, 8), Lit(1, 8), Lit(2, 8), Lit(9, 8), Lit(10, 8)}, UnpackHandlers),
          Stream(<<\hd8, \h07>>, Lit(16, 8), 1,
                 {Lit(1, 8), Lit(2, 8), Lit(17, 8), Lit(18, 8)}, UnpackHandlers),
          Stream(<<\h01, \hc3>>, Lit(0, 8), 2, {Lit(1, 8), Lit(2, 8)}, UnpackHandlers),
          Stream(<<\hc0, \h92, \h01, \h02>>, Lit(1, 8), 3, {Lit(4, 8), Lit(5, 8)},
                 UnpackHandlers)}

\* Streams with the largest counts and lengths a header can carry: a map 32
\* of 2^31 pairs, an ext 32, a str 32 and a bin 32 with or without their
\* payload, an array 32 without its elements.
Pow2_31 == Hex64(\h00, \h00, \h00, \h00, \h80, \h00, \h00, \h00)

Pow2_32 == Hex64(\h00, \h00, \h00, \h01, \h00, \h00, \h00, \h00)

GiantStreams ==
    {Stream(<<\hdf, \h80, \h00, \h00, \h00>>, Pow2_32, 1,
            {AddW(Pow2_32, Lit(5, 8))}, {"NULL"}),
     Stream(<<\hc9, \hff, \hff, \hff, \hff, \h07>>, SubW(Pow2_32, Lit(1, 8)), 1,
            {Lit(6, 8), AddW(Pow2_32, Lit(5, 8))}, UnpackHandlers),
     Stream(<<\hdb, \h80, \h00, \h00, \h00>>, Pow2_31, 1,
            {Lit(5, 8), AddW(Pow2_31, Lit(5, 8))}, UnpackHandlers),
     Stream(<<\hdb, \h80, \h00, \h00, \h00>>, Lit(0, 8), 0, {Lit(5, 8)}, UnpackHandlers),
     Stream(<<\hc6, \hff, \hff, \hff, \hff>>, Lit(0, 8), 0, {Lit(5, 8)}, UnpackHandlers),
     Stream(<<\hdd, \hff, \hff, \hff, \hff>>, Lit(0, 8), 0, {Lit(5, 8)}, UnpackHandlers)}

Streams == PrefixStreams \cup ItemStreams \cup GiantStreams

\* Memory holding the bytes at address at.
RECURSIVE MemImage(_, _)
MemImage(bytes, at) ==
    IF bytes = <<>> THEN <<>>
    ELSE <<[base |-> at, len |-> Lit(1, 8), seed |-> Head(bytes), step |-> 0]>>
             \o MemImage(Tail(bytes), AddW(at, Lit(1, 8)))

\* The caller has a stream in memory and an unpacker over its first window
\* bytes (length is an unsigned long), and makes up to r unpack calls.
InitReader(streams, r) ==
    /\ build \in Builds
    /\ \E s \in streams :
         \E window \in {x \in s.windows : ZeroExt(ULong(build, x), 8) = x},
            huu \in s.handlers :
           /\ mem = MemImage(s.bytes, PackBase)
           /\ unpack_context =
                  cw_unpack_context_init(build, NoUnpackContext, PackBase, window, huu).c
           /\ source = AddW(PackBase, Total(s))
           /\ input = [bytes |-> s.bytes, fill |-> s.fill, k |-> s.k, window |-> window]
    /\ pack_context = NoPackContext
    /\ call = NoCall
    /\ sent = <<>>
    /\ reading = TRUE
    /\ pack_calls_left = 0
    /\ unpack_calls_left = r

InitStream == InitReader(Streams, 2)

NextStream ==
    \/ CwUnpackNext
    \/ \E n \in {1, input.k} \ {0} : CwSkipItems(n)

SpecStream == InitStream /\ [][NextStream]_vars

(***************************************************************************)
(* The first item of the stream as the format lays it out: the prefix      *)
(* byte, a value or length field, the type byte of an extension, the       *)
(* payload of a blob.                                                      *)
(***************************************************************************)

\* The i-th byte of the stream.
StreamByte(s, i) == IF i <= Len(s.bytes) THEN s.bytes[i] ELSE 0

\* The width of the field that follows the prefix byte c.
FieldWidth(c) ==
    IF c \in {\hcc, \hd0, \hc4, \hc7, \hd9} THEN 1
    ELSE IF c \in {\hcd, \hd1, \hc5, \hc8, \hda, \hdc, \hde} THEN 2
    ELSE IF c \in {\hce, \hd2, \hca, \hc6, \hc9, \hdb, \hdd, \hdf} THEN 4
    ELSE IF c \in {\hcf, \hd3, \hcb} THEN 8
    ELSE 0

IsExt(c) == c \in {\hc7, \hc8, \hc9} \cup \hd4..\hd8

IsContainer(c) == c \in \h80..\h9f \cup {\hdc, \hdd, \hde, \hdf}

\* The big-endian number in the field of w bytes after the prefix byte.
FieldValue(s, w) == [k \in 1..8 |-> IF k <= w THEN StreamByte(s, 2 + w - k) ELSE 0]

\* The length of the payload that follows the header of a blob.
PayloadLength(s) ==
    LET c == StreamByte(s, 1)
    IN  IF c \in \ha0..\hbf THEN Lit(c % 32, 8)
        ELSE IF c \in {\hc4, \hc5, \hc6, \hc7, \hc8, \hc9, \hd9, \hda, \hdb}
        THEN FieldValue(s, FieldWidth(c))
        ELSE IF c = \hd4 THEN Lit(1, 8)
        ELSE IF c = \hd5 THEN Lit(2, 8)
        ELSE IF c = \hd6 THEN Lit(4, 8)
        ELSE IF c = \hd7 THEN Lit(8, 8)
        ELSE IF c = \hd8 THEN Lit(16, 8)
        ELSE Lit(0, 8)

\* The bytes cw_unpack_next has to demand for the first item, in order.
NextDemands(s) ==
    LET c == StreamByte(s, 1)
    IN  <<Lit(1, 8)>>
        \o (IF FieldWidth(c) > 0 THEN <<Lit(FieldWidth(c), 8)>> ELSE <<>>)
        \o (IF IsExt(c) THEN <<Lit(1, 8)>> ELSE <<>>)
        \o (IF IsZero(PayloadLength(s)) THEN <<>> ELSE <<PayloadLength(s)>>)

\* The bytes cw_skip_items has to demand for a first item that is no array
\* or map: the prefix byte, the length field of a str, bin or ext 8/16/32,
\* and the rest of the item.
SkipDemands(s) ==
    LET c == StreamByte(s, 1)
        rest == AddW(PayloadLength(s), Lit(IF IsExt(c) THEN 1 ELSE 0, 8))
    IN  IF c \in {\hc4, \hc5, \hc6, \hc7, \hc8, \hc9, \hd9, \hda, \hdb}
        THEN <<Lit(1, 8), Lit(FieldWidth(c), 8)>>
                 \o (IF IsZero(rest) THEN <<>> ELSE <<rest>>)
        ELSE IF IsZero(rest) /\ FieldWidth(c) = 0 THEN <<Lit(1, 8)>>
        ELSE <<Lit(1, 8), AddW(rest, Lit(FieldWidth(c), 8))>>

RECURSIVE SumW(_)
SumW(d) == IF d = <<>> THEN Lit(0, 8) ELSE AddW(Head(d), SumW(Tail(d)))

\* The size of the first item as cw_unpack_next consumes it.
ItemSize(s) == SumW(NextDemands(s))

\* The last call was the first call on the unpacker, made on the given
\* stream.
FirstCall(op) ==
    /\ call.op = op
    /\ call.pre.current = call.pre.start
    /\ call.pre.return_code = CWP_RC_OK

\* C7: with no underflow handler cw_unpack_next returns and stores
\* end-of-input exactly when no byte is available for the prefix byte, and
\* returns and stores buffer underflow when the input ends after the prefix
\* byte and before the item is complete.
C7_EndOfInputOrUnderflow ==
    (FirstCall("cw_unpack_next") /\ call.pre.handle_unpack_underflow = "NULL") =>
        /\ call.rc = CWP_RC_END_OF_INPUT <=> IsZero(input.window)
        /\ (~IsZero(input.window) /\ LtU(input.window, ItemSize(input)))
               => call.rc = CWP_RC_BUFFER_UNDERFLOW
        /\ call.rc \in {CWP_RC_END_OF_INPUT, CWP_RC_BUFFER_UNDERFLOW}
               => unpack_context.return_code = call.rc

\* An unpack call is made.
UnpackStep == unpack_calls_left' # unpack_calls_left

\* The stream is k complete top-level items, all of it in the window, and
\* the first call on it is (was) cw_skip_items(k).
SkipsAll ==
    /\ UnpackStep
    /\ input.k > 0
    /\ input.window = Total(input)
    /\ unpack_context.current = unpack_context.start
    /\ unpack_context.return_code = CWP_RC_OK
    /\ call'.op = "cw_skip_items"
    /\ call'.args = <<input.k>>

SkippedAll ==
    /\ input.k > 0
    /\ input.window = Total(input)
    /\ FirstCall("cw_skip_items")
    /\ call.args = <<input.k>>
    /\ unpack_context.handle_unpack_underflow # "broken"

\* C5: on a legal stream of k complete top-level items held entirely in the
\* buffer, cw_skip_items(k) returns OK with current advanced by exactly the
\* length of the stream, and the cw_unpack_next that follows returns
\* end-of-input (there is no underflow handler, or one that reports the end
\* of the input).
C5_SkipCorrectness ==
    [][/\ SkipsAll =>
             /\ call'.rc = CWP_RC_OK
             /\ unpack_context'.current = AddW(unpack_context.start, Total(input))
       /\ (SkippedAll /\ UnpackStep /\ call'.op = "cw_unpack_next")
             => call'.rc = CWP_RC_END_OF_INPUT]_vars

\* C8: cw_unpack_next and cw_skip_items return malformed input for the
\* prefix byte 0xc1 and store it in return_code, so that the next call on
\* the context returns stopped; and a call that returns malformed input has
\* just consumed a prefix byte 0xc1: no other prefix byte is rejected.
C8_MalformedRejection ==
    [][UnpackStep =>
          /\ (/\ unpack_context.return_code = CWP_RC_OK
              /\ LtU(unpack_context.current, unpack_context.end)
              /\ MemRead(mem, unpack_context.current) = \hc1)
                 => /\ call'.rc = CWP_RC_MALFORMED_INPUT
                    /\ unpack_context'.return_code = CWP_RC_MALFORMED_INPUT
          /\ call'.rc = CWP_RC_MALFORMED_INPUT
                 => /\ unpack_context'.return_code = CWP_RC_MALFORMED_INPUT
                    /\ MemRead(mem, SubW(unpack_context'.current, Lit(1, 8))) = \hc1
          /\ unpack_context.return_code = CWP_RC_MALFORMED_INPUT
                 => call'.rc = CWP_RC_STOPPED]_vars

\* The stream began with 0xc1, the first call rejected it and the second
\* call was stopped.
C8_Witness ==
    /\ input.bytes[1] = \hc1
    /\ call.op \in UnpackOps
    /\ call.pre.return_code = CWP_RC_MALFORMED_INPUT
    /\ call.rc = CWP_RC_STOPPED
    /\ unpack_calls_left = 0

\* What the handler protocol makes of the demands d[i..] of a call: the
\* sizes the handler is called with and the code the call returns, when
\* current is pos bytes and end is end bytes into a stream of total bytes.
\* The handler huu supplies the bytes asked for while the stream has them and
\* then reports end-of-input ("refill"), or fails ("broken").
RECURSIVE Served(_, _, _, _, _, _)
Served(d, i, pos, end, total, huu) ==
    IF i > Len(d) THEN [h |-> <<>>, rc |-> CWP_RC_OK]
    ELSE IF ~LtU(end, AddW(pos, d[i]))
    THEN Served(d, i + 1, AddW(pos, d[i]), end, total, huu)
    ELSE IF huu = "broken" THEN [h |-> <<d[i]>>, rc |-> CWP_RC_ERROR_IN_HANDLER]
    ELSE IF LtU(total, AddW(pos, d[i]))
    THEN [h |-> <<d[i]>>,
          rc |-> IF i = 1 THEN CWP_RC_END_OF_INPUT ELSE CWP_RC_BUFFER_UNDERFLOW]
    ELSE LET Later(r) == [h |-> <<d[i]>> \o r.h, rc |-> r.rc]
         IN  Later(Served(d, i + 1, AddW(pos, d[i]), AddW(pos, d[i]), total, huu))

\* The last call went as the protocol makes of the demands d.
ServedAs(d) ==
    LET Same(e) ==
            /\ [i \in 1..Len(call.h) |-> ZeroExt(call.h[i], 8)] = e.h
            /\ call.rc = IF e.rc = CWP_RC_OK /\ input.bytes[1] = \hc1
                         THEN CWP_RC_MALFORMED_INPUT ELSE e.rc
            /\ unpack_context.return_code = call.rc
    IN  Same(Served(d, 1, Lit(0, 8), input.window, Total(input),
                    call.pre.handle_unpack_underflow))

\* C10: a demand of k bytes with current + k > end calls the installed
\* handler with k; when it returns OK decoding continues and return_code
\* stays OK; when it returns end-of-input the call stores and returns
\* end-of-input for a demand of a prefix byte and buffer underflow for any
\* other; any other code is stored and returned as it is.  Stated of the
\* first cw_unpack_next on a stream and of the first cw_skip_items(1) on a
\* stream that begins with an item other than an array or a map.
C10_UnderflowHandler ==
    /\ (FirstCall("cw_unpack_next") /\ call.pre.handle_unpack_underflow # "NULL")
           => ServedAs(NextDemands(input))
    /\ (/\ FirstCall("cw_skip_items")
        /\ call.args = <<1>>
        /\ ~IsContainer(input.bytes[1])
        /\ call.pre.handle_unpack_underflow # "NULL")
           => ServedAs(SkipDemands(input))

\* A pack operation is called on an OK context.
PackStep == pack_calls_left' # pack_calls_left /\ pack_context.return_code = CWP_RC_OK

\* The bytes stored by the stores k.. of the log m.
RECURSIVE StoredFrom(_, _)
StoredFrom(m, k) ==
    IF k > Len(m) THEN Lit(0, 8) ELSE AddW(m[k].len, StoredFrom(m, k + 1))

\* C11: a pack operation makes one reservation, before it writes any byte:
\* the overflow handler is called at most once, a call that fails has written
\* nothing and moved nothing, a handler's non-OK code is stored in
\* return_code and returned, and after a handler's OK the whole item is
\* written and return_code stays OK.
C11_OverflowHandlerProtocol ==
    [][PackStep =>
          /\ Len(call'.h) <= 1
          /\ call'.rc # CWP_RC_OK
                 => /\ mem' = mem
                    /\ pack_context'.current = pack_context.current
                    /\ pack_context'.return_code = call'.rc
          /\ (call'.h # <<>> /\ pack_context.handle_pack_overflow = "refuse")
                 => call'.rc = CWP_RC_ERROR_IN_HANDLER
          /\ (call'.h # <<>> /\ pack_context.handle_pack_overflow = "grow")
                 => /\ call'.rc = CWP_RC_OK
                    /\ pack_context'.return_code = CWP_RC_OK
                    /\ pack_context'.current
                           = AddW(pack_context.current, WireSize(call'.op, call'.args))
                    /\ StoredFrom(mem', Len(mem) + 1) = WireSize(call'.op, call'.args)]_vars

\* A handler enlarged the buffer for a str 16 and its blob, and the item was
\* written.
C11_Witness ==
    /\ call.op = "cw_pack_str"
    /\ call.args[2] = Lit(256, 4)
    /\ Len(call.h) = 1
    /\ call.rc = CWP_RC_OK
    /\ call.pre.handle_pack_overflow = "grow"

\* The variable a pack operation hands to cw_store16, cw_store32 or
\* cw_store64: the value of an integer or a real (64-bit, the float 32-bit),
\* the count of an array or a map and the length of a blob (32-bit).
StoredVariable(op, args) ==
    IF op \in {"cw_pack_str", "cw_pack_bin"} THEN args[2]
    ELSE IF op = "cw_pack_ext" THEN args[3]
    ELSE args[1]

\* The tag byte the last pack call wrote.
TagWritten == MemRead(mem, call.pre.current)

\* C12: on every build (the big-endian and the little-endian fast path and
\* the portable path, each on the host it is compiled for) the 16-, 32- or
\* 64-bit field that a pack operation stores after the tag byte holds the
\* variable stored, most significant byte first.
C12_StoresBigEndian ==
    (call.op \in PackOps /\ call.rc = CWP_RC_OK /\ FieldWidth(TagWritten) > 1) =>
        \A k \in 1..FieldWidth(TagWritten) :
            MemRead(mem, AddW(call.pre.current, Lit(k, 8)))
                = BigEndian(StoredVariable(call.op, call.args), FieldWidth(TagWritten))[k]

\* The prefix bytes of the integers, and those of them whose value is signed.
IntegerTags == \h00..\h7f \cup \hcc..\hcf \cup \hd0..\hd3 \cup \he0..\hff

SignedTags == \hd0..\hd3 \cup \he0..\hff

\* The integer that the bytes at address at encode: the prefix byte itself
\* or the big-endian field after it, sign-extended under a signed tag.
WireInteger(at) ==
    LET c == MemRead(mem, at)
        w == FieldWidth(c)
        field == [k \in 1..w |-> MemRead(mem, AddW(at, Lit(1 + w - k, 8)))]
    IN  IF w = 0 THEN (IF c \in SignedTags THEN SignExt(<<c>>, 8) ELSE Lit(c, 8))
        ELSE IF c \in SignedTags THEN SignExt(field, 8)
        ELSE ZeroExt(field, 8)

\* The last call was a cw_unpack_next that decoded an integer.
DecodedInteger ==
    /\ call.op = "cw_unpack_next"
    /\ call.rc = CWP_RC_OK
    /\ MemRead(mem, call.pre.current) \in IntegerTags

\* C13: whenever cw_unpack_next decodes an integer, the item holds the value
\* on the wire and its type is negative integer if that value is < 0 and
\* positive integer if it is >= 0, whatever the tag.
C13_SignNormalization ==
    DecodedInteger =>
        /\ unpack_context.item.as.v = WireInteger(call.pre.current)
        /\ unpack_context.item.type =
               IF /\ MemRead(mem, call.pre.current) \in SignedTags
                  /\ IsNeg(WireInteger(call.pre.current))
               THEN CWP_ITEM_NEGATIVE_INTEGER
               ELSE CWP_ITEM_POSITIVE_INTEGER

\* d0 05 was decoded as the positive integer 5.
C13_Witness ==
    /\ DecodedInteger
    /\ MemRead(mem, call.pre.current) = \hd0
    /\ unpack_context.item.as.v = Lit(5, 8)
    /\ unpack_context.item.type = CWP_ITEM_POSITIVE_INTEGER

\* The prefix bytes of the items that carry a blob.
BlobTags == \ha0..\hbf \cup \hc4..\hc9 \cup \hd4..\hd8 \cup {\hd9, \hda, \hdb}

\* The first call on the stream was a cw_unpack_next that returned OK for a
\* str, bin or ext item.
DecodedBlob ==
    /\ FirstCall("cw_unpack_next")
    /\ call.rc = CWP_RC_OK
    /\ input.bytes[1] \in BlobTags

\* Where the payload of the first item starts: after the prefix byte, the
\* length field and the type byte of an extension.
PayloadStart(s) ==
    AddW(PackBase, Lit(1 + FieldWidth(s.bytes[1]) + (IF IsExt(s.bytes[1]) THEN 1 ELSE 0), 8))

\* C14: after cw_unpack_next returns OK for a str, bin or ext item the blob
\* pointer is the address of the first payload byte, current is the blob
\* pointer plus the length, memory is as it was, and with no handler the
\* blob lies inside [start, end].
C14_BlobAliasing ==
    DecodedBlob =>
        /\ unpack_context.item.as.start = PayloadStart(input)
        /\ unpack_context.item.as.length = Trunc(PayloadLength(input), 4)
        /\ unpack_context.current = AddW(PayloadStart(input), PayloadLength(input))
        /\ mem = MemImage(input.bytes, PackBase)
        /\ call.pre.handle_unpack_underflow = "NULL"
               => /\ LeU(unpack_context.start, unpack_context.item.as.start)
                  /\ LeU(AddW(unpack_context.item.as.start, PayloadLength(input)),
                         unpack_context.end)

\* The first call on the stream was a cw_skip_items whose first item is an
\* array or map header that lies wholly inside the window.
HeaderSkipped ==
    /\ FirstCall("cw_skip_items")
    /\ IsContainer(input.bytes[1])
    /\ LeU(Lit(1 + FieldWidth(input.bytes[1]), 8), input.window)

\* The items an array or map header announces: its count, twice for a map.
ContainerItems(s) ==
    LET c == s.bytes[1]
        count == IF c \in \h80..\h9f THEN Lit(c % 16, 8) ELSE FieldValue(s, FieldWidth(c))
    IN  IF c \in \h80..\h8f \cup {\hde, \hdf} THEN AddW(count, count) ELSE count

\* What the switch of cw_skip_items added to item_count for the first item.
CounterAdded ==
    SkipSwitch(build, mem, Advance([c |-> call.pre, src |-> source, h |-> <<>>], 1),
               input.bytes[1]).add

\* C15: for an array header cw_skip_items adds the element count to
\* item_count and for a map header twice the pair count, for every count the
\* wire can carry, without wrap or truncation.
C15_SkipCounter ==
    HeaderSkipped => Signed(CounterAdded, 8) = ContainerItems(input)

\* A str, bin or ext was packed into a context that was not poisoned.
PackedBlob ==
    /\ call.op \in {"cw_pack_str", "cw_pack_bin", "cw_pack_ext"}
    /\ call.pre.return_code = CWP_RC_OK

\* The room the context had before the call, end - current.
RoomBefore == SubW(call.pre.end, call.pre.current)

\* C16: for every blob length the byte count cw_pack_str, cw_pack_bin and
\* cw_pack_ext compare against end - current, and pass to the overflow
\* handler, is the header size plus the length, without 32-bit wrap: the
\* handler is called exactly when that count exceeds the room, and with that
\* count; with no handler the call overflows exactly when it exceeds the room.
C16_BlobReservation ==
    PackedBlob =>
        /\ call.h # <<>> => ZeroExt(call.h[1], 8) = WireSize(call.op, call.args)
        /\ call.pre.handle_pack_overflow # "NULL"
               => (call.h # <<>> <=> LtU(RoomBefore, WireSize(call.op, call.args)))
        /\ call.pre.handle_pack_overflow = "NULL"
               => (call.rc = CWP_RC_BUFFER_OVERFLOW
                       <=> LtU(RoomBefore, WireSize(call.op, call.args)))

\* The last call was a cw_unpack_next that decoded an item with a 64-bit
\* field: a double, an unsigned int 64 or a signed int 64.
Decoded64 ==
    /\ call.op = "cw_unpack_next"
    /\ call.rc = CWP_RC_OK
    /\ MemRead(mem, call.pre.current) \in {\hcb, \hcf, \hd3}

\* The eight bytes after the prefix byte at address at, read big-endian.
WireField64(at) == [k \in 1..8 |-> MemRead(mem, AddW(at, Lit(9 - k, 8)))]

\* C17: on every byte-order path cw_unpack_next decodes an item of prefix
\* cb, cf or d3 only when 8 bytes follow the prefix byte, loads them
\* big-endian, and leaves current 9 bytes further, on the prefix byte of the
\* following item.
C17_Load64Consumes8 ==
    Decoded64 =>
        /\ unpack_context.item.as.v = WireField64(call.pre.current)
        /\ unpack_context.current = AddW(call.pre.current, Lit(9, 8))
        /\ call.h = <<>> => LeU(AddW(call.pre.current, Lit(9, 8)), call.pre.end)

\* The byte of the stream s at offset pos (a word, from 0): the bytes
\* written out, then the fill of zero bytes.
ByteAt(s, pos) ==
    IF LtU(pos, Lit(Len(s.bytes), 8)) THEN s.bytes[pos[1] + 256 * pos[2] + 1] ELSE 0

\* The big-endian number in the field of w bytes after the prefix byte at pos.
FieldAt(s, pos, w) ==
    [k \in 1..8 |-> IF k <= w THEN ByteAt(s, AddW(pos, Lit(1 + w - k, 8))) ELSE 0]

\* The bytes that follow the prefix byte and the field of the item at pos,
\* an item that is no array or map: type byte and payload.
RestAt(s, pos) ==
    LET c == ByteAt(s, pos)
        ext == Lit(IF IsExt(c) THEN 1 ELSE 0, 8)
    IN  IF c \in \ha0..\hbf THEN Lit(c % 32, 8)
        ELSE IF c \in {\hc4, \hc5, \hc6, \hc7, \hc8, \hc9, \hd9, \hda, \hdb}
        THEN AddW(FieldAt(s, pos, FieldWidth(c)), ext)
        ELSE IF c = \hd4 THEN Lit(2, 8)
        ELSE IF c = \hd5 THEN Lit(3, 8)
        ELSE IF c = \hd6 THEN Lit(5, 8)
        ELSE IF c = \hd7 THEN Lit(9, 8)
        ELSE IF c = \hd8 THEN Lit(17, 8)
        ELSE Lit(0, 8)

\* The items the array or map header at pos announces.
ItemsAt(s, pos) ==
    LET c == ByteAt(s, pos)
        count == IF c \in \h80..\h9f THEN Lit(c % 16, 8) ELSE FieldAt(s, pos, FieldWidth(c))
    IN  IF c \in \h80..\h8f \cup {\hde, \hdf} THEN AddW(count, count) ELSE count

\* How skipping left items from offset pos of the stream s ends when only
\* the first w bytes are there and nobody supplies more: where the walk
\* through the MessagePack layout runs out of bytes, and whether that is at
\* a prefix byte or after one.  In the fill every byte is an item.
RECURSIVE SkipOutcome(_, _, _, _)
SkipOutcome(s, w, pos, left) ==
    LET c == ByteAt(s, pos)
        head == AddW(pos, Lit(1 + FieldWidth(c), 8))
        size == AddW(head, RestAt(s, pos))
    IN  IF IsZero(left) THEN CWP_RC_OK
        ELSE IF ~LtU(pos, w) THEN CWP_RC_END_OF_INPUT
        ELSE IF ~LtU(pos, Lit(Len(s.bytes), 8))
        THEN (IF LeU(left, SubW(w, pos)) THEN CWP_RC_OK ELSE CWP_RC_END_OF_INPUT)
        ELSE IF c = \hc1 THEN CWP_RC_MALFORMED_INPUT
        ELSE IF LtU(w, head) THEN CWP_RC_BUFFER_UNDERFLOW
        ELSE IF IsContainer(c)
        THEN SkipOutcome(s, w, head, AddW(SubW(left, Lit(1, 8)), ItemsAt(s, pos)))
        ELSE IF LtU(w, size) THEN CWP_RC_BUFFER_UNDERFLOW
        ELSE SkipOutcome(s, w, size, SubW(left, Lit(1, 8)))

\* The first call on the stream was a cw_skip_items, with no underflow
\* handler.
SkippedUnaided ==
    /\ FirstCall("cw_skip_items")
    /\ call.pre.handle_unpack_underflow = "NULL"

Expected == SkipOutcome(input, input.window, Lit(0, 8), Lit(call.args[1], 8))

\* C18: with no underflow handler, cw_skip_items returns end-of-input when
\* the bytes run out at the prefix byte of an item, an element of an array
\* or map whose header the same call consumed included, and returns buffer
\* underflow only when they run out after the prefix byte of an item.
C18_SkipEndClassification ==
    SkippedUnaided =>
        /\ Expected = CWP_RC_END_OF_INPUT => call.rc = CWP_RC_END_OF_INPUT
        /\ call.rc = CWP_RC_BUFFER_UNDERFLOW => Expected = CWP_RC_BUFFER_UNDERFLOW

\* The last call was a cw_skip_items with no underflow handler, on a context
\* that was not poisoned and whose current was inside its buffer.
SkipRan ==
    /\ call.op = "cw_skip_items"
    /\ call.pre.handle_unpack_underflow = "NULL"
    /\ call.pre.return_code = CWP_RC_OK
    /\ LeU(call.pre.current, call.pre.end)

\* That call once more, with the iterations of its loop counted.
SkipRun ==
    cw_skip_items(build, mem, [c |-> call.pre, src |-> source, h |-> <<>>],
                  SLit(call.args[1], build.long_bits \div 8))

\* C19: with no underflow handler cw_skip_items(n) returns, with OK,
\* end-of-input, buffer underflow or malformed input, after at most
\* (end - current) + 1 iterations of its loop, and every iteration but a
\* last one that returns consumes at least one byte.
C19_SkipTermination ==
    SkipRan =>
        /\ SkipRun.rc = call.rc
        /\ SkipRun.c = unpack_context
        /\ call.rc \in {CWP_RC_OK, CWP_RC_END_OF_INPUT, CWP_RC_BUFFER_UNDERFLOW,
                        CWP_RC_MALFORMED_INPUT}
        /\ LeU(Lit(SkipRun.iterations, 8),
               AddW(SubW(call.pre.end, call.pre.current), Lit(1, 8)))
        /\ LeU(Lit(SkipRun.iterations, 8),
               AddW(SubW(unpack_context.current, call.pre.current), Lit(1, 8)))

\* A skip that walked into an array and ran out of bytes at the prefix byte
\* of an element, in as many iterations as the bound allows.
C19_Witness ==
    /\ SkipRan
    /\ call.rc = CWP_RC_END_OF_INPUT
    /\ SkipRun.iterations > 2
    /\ Lit(SkipRun.iterations, 8) = AddW(SubW(call.pre.end, call.pre.current), Lit(1, 8))

====
